---------------------------- MODULE Spec2Model ----------------------------
(***************************************************************************)
(* A model of squiflog, the SYSLOG-over-UDP to CLEF bridge:                *)
(*   - the byte parsers               (src/squiflog/src/data/parsers.rs)   *)
(*   - the syslog decoder             (src/squiflog/src/data/syslog.rs)    *)
(*   - the CLEF projection and writer (src/squiflog/src/data/mod.rs,       *)
(*                                     src/squiflog/src/data/clef.rs)      *)
(*   - the ingestion loop             (src/squiflog/src/server/mod.rs,     *)
(*                                     src/squiflog/src/server/udp.rs)     *)
(*                                                                         *)
(* A byte slice is a sequence of integers 0..255; a Rust `str` is the      *)
(* sequence of its UTF-8 bytes.  A parser result is a record with a field  *)
(* `ok`; a panic of the Rust code is the result kind "panic".              *)
(***************************************************************************)
EXTENDS Integers, Sequences, FiniteSets, TLC

(***************************************************************************)
(* Bytes the code names.                                                   *)
(***************************************************************************)
LT == 60
GT == 62
SP == 32
HYPHEN == 45
LBRACKET == 91
RBRACKET == 93
EQUALS == 61
DQUOTE == 34
COLON == 58
DOT == 46

BOM == <<239, 187, 191>>
REPLACEMENT == <<239, 191, 189>>

(***************************************************************************)
(* Small helpers over sequences.                                           *)
(***************************************************************************)
At(s, k) == IF k >= 1 /\ k <= Len(s) THEN s[k] ELSE -1

Drop(s, n) == IF n >= Len(s) THEN <<>> ELSE SubSeq(s, n + 1, Len(s))

Take(s, n) == IF n >= Len(s) THEN s ELSE SubSeq(s, 1, n)

StartsWith(s, p) == Len(s) >= Len(p) /\ SubSeq(s, 1, Len(p)) = p

IsDigit(b) == b >= 48 /\ b <= 57

Err(m) == [ok |-> FALSE, panic |-> FALSE, err |-> m, val |-> <<>>, rem |-> <<>>]

Ok(v, r) == [ok |-> TRUE, panic |-> FALSE, err |-> "", val |-> v, rem |-> r]

\* A panic of the Rust code: neither a value nor an error value.
Panic(m) == [ok |-> FALSE, panic |-> TRUE, err |-> m, val |-> <<>>, rem |-> <<>>]

None == [some |-> FALSE, v |-> <<>>]

Some(x) == [some |-> TRUE, v |-> x]

\* `let v = ...;` followed by the code F that uses v.
Bind(v, F(_)) == F(v)

\* `let r = ...?;` followed by the code F that uses r: an error (or a panic)
\* leaves the function at once.
Then(r, F(_)) == IF r.ok THEN F(r) ELSE r

(***************************************************************************)
(* UTF-8, as std::str::from_utf8 and String::from_utf8_lossy see it.       *)
(* Utf8Step looks at the head of a non-empty slice: a well-formed scalar   *)
(* of n bytes, or an ill-formed run of n bytes (the maximal prefix of a    *)
(* well-formed sequence), which the lossy decoder replaces by U+FFFD.      *)
(***************************************************************************)
IsCont(b) == b >= 128 /\ b <= 191

Utf8Step(s) ==
    LET b1 == s[1]
        b2 == At(s, 2)
        b3 == At(s, 3)
        b4 == At(s, 4)
        second3 == CASE b1 = 224 -> b2 >= 160 /\ b2 <= 191
                     [] b1 = 237 -> b2 >= 128 /\ b2 <= 159
                     [] OTHER -> IsCont(b2)
        second4 == CASE b1 = 240 -> b2 >= 144 /\ b2 <= 191
                     [] b1 = 244 -> b2 >= 128 /\ b2 <= 143
                     [] OTHER -> IsCont(b2)
    IN  IF b1 < 128 THEN [ok |-> TRUE, n |-> 1]
        ELSE IF b1 >= 194 /\ b1 <= 223
             THEN IF IsCont(b2) THEN [ok |-> TRUE, n |-> 2]
                  ELSE [ok |-> FALSE, n |-> 1]
        ELSE IF b1 >= 224 /\ b1 <= 239
             THEN IF ~second3 THEN [ok |-> FALSE, n |-> 1]
                  ELSE IF ~IsCont(b3) THEN [ok |-> FALSE, n |-> 2]
                  ELSE [ok |-> TRUE, n |-> 3]
        ELSE IF b1 >= 240 /\ b1 <= 244
             THEN IF ~second4 THEN [ok |-> FALSE, n |-> 1]
                  ELSE IF ~IsCont(b3) THEN [ok |-> FALSE, n |-> 2]
                  ELSE IF ~IsCont(b4) THEN [ok |-> FALSE, n |-> 3]
                  ELSE [ok |-> TRUE, n |-> 4]
        ELSE [ok |-> FALSE, n |-> 1]

RECURSIVE is_utf8(_)
is_utf8(s) ==
    IF s = <<>> THEN TRUE
    ELSE LET st == Utf8Step(s)
         IN  st.ok /\ is_utf8(Drop(s, st.n))

\* std::str::from_utf8: the same bytes, or an error.
from_utf8(s) == IF is_utf8(s) THEN Ok(s, <<>>) ELSE Err("invalid utf-8")

RECURSIVE from_utf8_lossy(_)
from_utf8_lossy(s) ==
    IF s = <<>> THEN <<>>
    ELSE LET st == Utf8Step(s)
         IN  (IF st.ok THEN Take(s, st.n) ELSE REPLACEMENT)
                 \o from_utf8_lossy(Drop(s, st.n))

\* A char boundary of a valid str: the start, the end, or a non-continuation byte.
is_char_boundary(s, idx) ==
    idx = 0 \/ idx = Len(s) \/ (idx < Len(s) /\ ~IsCont(s[idx + 1]))

\* char::is_whitespace on the scalar that ends s: n bytes of White_Space, or 0.
TrailingWhitespace(s) ==
    LET n == Len(s)
    IN  IF n >= 1 /\ s[n] \in {9, 10, 11, 12, 13, 32} THEN 1
        ELSE IF n >= 2 /\ s[n - 1] = 194 /\ s[n] \in {133, 160} THEN 2
        ELSE IF n >= 3 /\ s[n - 2] = 226 /\ s[n - 1] = 128
                /\ (s[n] \in 128..138 \/ s[n] \in {168, 169, 175}) THEN 3
        ELSE IF n >= 3 /\ s[n - 2] = 225 /\ s[n - 1] = 154 /\ s[n] = 128 THEN 3
        ELSE IF n >= 3 /\ s[n - 2] = 226 /\ s[n - 1] = 129 /\ s[n] = 159 THEN 3
        ELSE IF n >= 3 /\ s[n - 2] = 227 /\ s[n - 1] = 128 /\ s[n] = 128 THEN 3
        ELSE 0

RECURSIVE trim_end(_)
trim_end(s) ==
    LET w == TrailingWhitespace(s)
    IN  IF w = 0 THEN s ELSE trim_end(SubSeq(s, 1, Len(s) - w))

RECURSIVE trim_matches(_, _)
trim_matches(s, c) ==
    IF s # <<>> /\ s[1] = c THEN trim_matches(Tail(s), c)
    ELSE IF s # <<>> /\ s[Len(s)] = c THEN trim_matches(SubSeq(s, 1, Len(s) - 1), c)
    ELSE s

\* str::split(sep): the pieces between the occurrences of sep, at least one.
RECURSIVE split_from(_, _, _)
split_from(s, sep, piece) ==
    IF s = <<>> THEN <<piece>>
    ELSE IF StartsWith(s, sep) THEN <<piece>> \o split_from(Drop(s, Len(sep)), sep, <<>>)
    ELSE split_from(Tail(s), sep, Append(piece, s[1]))

split(s, sep) == split_from(s, sep, <<>>)

(***************************************************************************)
(* data/parsers.rs                                                         *)
(***************************************************************************)
any_byte(i) ==
    IF Len(i) = 0 THEN Err("unexpected end of input")
    ELSE Ok(i[1], Tail(i))

byte(i, b) ==
    Bind(any_byte(i), LAMBDA r :
        IF r.ok
        THEN IF r.val = b THEN Ok(<<>>, r.rem) ELSE Err("unexpected byte")
        ELSE Err("expected byte, unexpected end of input"))

RECURSIVE until_loop(_, _, _, _)
until_loop(i, rem, count, end) ==
    IF Len(rem) # 0
    THEN IF rem[1] = end THEN Ok(Take(i, count), rem)
         ELSE until_loop(i, Tail(rem), count + 1, end)
    ELSE Err("missing end delimiter")

until(i, end) == until_loop(i, i, 0, end)

delimited(i, start, end) ==
    IF Len(i) = 0 \/ i[1] # start THEN Err("missing start delimiter")
    ELSE IF Len(Tail(i)) = 0 THEN Err("missing delimited content")
    ELSE Then(until(Tail(i), end), LAMBDA u : Ok(u.val, Tail(u.rem)))

take(i, count) ==
    IF Len(i) < count THEN Err("the input is too short")
    ELSE Ok(Take(i, count), Drop(i, count))

\* str::parse::<u8>() on ASCII digits: checked multiply-and-add, most
\* significant digit first; an overflow of the 8 bits is an error.
RECURSIVE parse_u8_from(_, _)
parse_u8_from(digits, acc) ==
    IF digits = <<>> THEN Ok(acc, <<>>)
    ELSE LET next == acc * 10 + (digits[1] - 48)
         IN  IF next > 255 THEN Err("number too large to fit in target type")
             ELSE parse_u8_from(Tail(digits), next)

parse_u8(digits) ==
    IF digits = <<>> THEN Err("cannot parse integer from empty string")
    ELSE parse_u8_from(digits, 0)

priority(i) ==
    Then(delimited(i, LT, GT), LAMBDA d :
        IF Len(d.val) = 0 \/ \E k \in 1..Len(d.val) : ~IsDigit(d.val[k])
        THEN Err("invalid priority content")
        ELSE Then(parse_u8(d.val), LAMBDA p : Ok(p.val, d.rem)))

\* header_item that leaves the trailing space in the remaining slice.
header_item_keeps_space(i, name) ==
    Bind(until(i, SP), LAMBDA u :
        IF ~u.ok THEN Err("missing " \o name)
        ELSE IF u.val = <<HYPHEN>> THEN Ok(None, u.rem)
        ELSE IF ~is_utf8(u.val) THEN Err("invalid utf-8")
        ELSE Ok(Some(u.val), u.rem))

header_item(i, name) ==
    Bind(until(i, SP), LAMBDA u :
        IF ~u.ok THEN Err("missing " \o name)
        ELSE Then(byte(u.rem, SP), LAMBDA b :
                IF u.val = <<HYPHEN>> THEN Ok(None, b.rem)
                ELSE IF ~is_utf8(u.val) THEN Err("invalid utf-8")
                ELSE Ok(Some(u.val), b.rem)))

(***************************************************************************)
(* chrono, as far as the parsers use it.  A DateTime<Utc> is a record of   *)
(* its UTC fields.  The machine's Local zone is a fixed offset `tz`, in    *)
(* minutes east of UTC.                                                    *)
(***************************************************************************)
DateTime(y, mo, d, h, mi, s, n) ==
    [year |-> y, month |-> mo, day |-> d, hour |-> h, minute |-> mi,
     second |-> s, nano |-> n]

IsLeapYear(y) == (y % 4 = 0 /\ y % 100 # 0) \/ y % 400 = 0

DaysInMonth(y, m) ==
    IF m = 2 THEN (IF IsLeapYear(y) THEN 29 ELSE 28)
    ELSE IF m \in {4, 6, 9, 11} THEN 30 ELSE 31

\* NaiveDate::from_ymd_opt(y, m, d).is_some()
ValidDate(y, m, d) == m >= 1 /\ m <= 12 /\ d >= 1 /\ d <= DaysInMonth(y, m)

PrevDay(dt) ==
    IF dt.day > 1 THEN [dt EXCEPT !.day = dt.day - 1]
    ELSE IF dt.month > 1
         THEN [dt EXCEPT !.month = dt.month - 1,
                         !.day = DaysInMonth(dt.year, dt.month - 1)]
    ELSE [dt EXCEPT !.year = dt.year - 1, !.month = 12, !.day = 31]

NextDay(dt) ==
    IF dt.day < DaysInMonth(dt.year, dt.month) THEN [dt EXCEPT !.day = dt.day + 1]
    ELSE IF dt.month < 12 THEN [dt EXCEPT !.month = dt.month + 1, !.day = 1]
    ELSE [dt EXCEPT !.year = dt.year + 1, !.month = 1, !.day = 1]

\* with_timezone(&Utc) of a wall-clock time read at `offset` minutes east of
\* UTC (|offset| < one day): the same instant in UTC fields.
with_timezone_utc(dt, offset) ==
    LET m == dt.hour * 60 + dt.minute - offset
        at(x, mm) == [x EXCEPT !.hour = mm \div 60, !.minute = mm % 60]
    IN  IF m < 0 THEN at(PrevDay(dt), m + 1440)
        ELSE IF m >= 1440 THEN at(NextDay(dt), m - 1440)
        ELSE at(dt, m)

\* format::scan::number(s, min, max): between min and max ASCII digits.
RECURSIVE scan_digits(_, _, _, _)
scan_digits(s, max, n, acc) ==
    IF n < max /\ s # <<>> /\ IsDigit(s[1])
    THEN scan_digits(Tail(s), max, n + 1, acc * 10 + (s[1] - 48))
    ELSE [n |-> n, val |-> acc, rem |-> s]

scan_number(s, min, max) ==
    Bind(scan_digits(s, max, 0, 0), LAMBDA r :
        IF r.n < min THEN Err(IF Len(s) < min THEN "premature end of input"
                              ELSE "input contains invalid characters")
        ELSE Ok(r.val, r.rem))

scan_char(s, c) ==
    IF s = <<>> THEN Err("premature end of input")
    ELSE IF s[1] = c THEN Ok(<<>>, Tail(s))
    ELSE Err("input contains invalid characters")

\* format::scan::nanosecond: one or more digits, the first nine scaled to
\* nanoseconds, the rest dropped.
RECURSIVE skip_digits(_)
skip_digits(s) == IF s # <<>> /\ IsDigit(s[1]) THEN skip_digits(Tail(s)) ELSE s

RECURSIVE Pow10(_)
Pow10(n) == IF n = 0 THEN 1 ELSE 10 * Pow10(n - 1)

scan_nanosecond(s) ==
    Bind(scan_digits(s, 9, 0, 0), LAMBDA r :
        IF r.n < 1 THEN Err(IF s = <<>> THEN "premature end of input"
                            ELSE "input contains invalid characters")
        ELSE Ok(r.val * Pow10(9 - r.n), skip_digits(r.rem)))

\* format::scan::timezone_offset_zulu with a mandatory colon: minutes east.
scan_timezone_offset_zulu(s) ==
    IF s = <<>> THEN Err("premature end of input")
    ELSE IF s[1] \in {90, 122} THEN Ok(0, Tail(s))
    ELSE IF s[1] \notin {43, 45} THEN Err("input contains invalid characters")
    ELSE Then(scan_number(Tail(s), 2, 2), LAMBDA hh :
         Then(scan_char(hh.rem, COLON), LAMBDA c :
         Then(scan_number(c.rem, 2, 2), LAMBDA mm :
            IF mm.val > 59 THEN Err("input is out of range")
            ELSE Ok((IF s[1] = 45 THEN -1 ELSE 1) * (hh.val * 60 + mm.val), mm.rem))))

\* Parsed::to_naive_time: a second of 60 is a leap second, kept as 59 plus a
\* whole second of nanoseconds.
ValidTime(h, mi, s) == h <= 23 /\ mi <= 59 /\ s <= 60

\* The date-time separator of RFC 3339: 'T' or 't'.
scan_date_time_separator(s) ==
    IF s = <<>> THEN Err("premature end of input")
    ELSE IF s[1] \in {84, 116} THEN Ok(<<>>, Tail(s))
    ELSE Err("input contains invalid characters")

\* The optional fraction of a second: '.' and digits, or nothing.
scan_fraction(s) ==
    IF s # <<>> /\ s[1] = DOT THEN scan_nanosecond(Tail(s)) ELSE Ok(0, s)

\* A second of 60 is a leap second: second 59 plus a whole second of nanoseconds.
NaiveDateTime(y, mo, d, h, mi, sec, nano) ==
    DateTime(y, mo, d, h, mi, IF sec = 60 THEN 59 ELSE sec,
             nano + (IF sec = 60 THEN 1000000000 ELSE 0))

\* DateTime::parse_from_rfc3339(s).with_timezone(&Utc)
parse_from_rfc3339(s) ==
    Then(scan_number(s, 4, 4), LAMBDA y :
    Then(scan_char(y.rem, HYPHEN), LAMBDA d1 :
    Then(scan_number(d1.rem, 2, 2), LAMBDA mo :
    Then(scan_char(mo.rem, HYPHEN), LAMBDA d2 :
    Then(scan_number(d2.rem, 2, 2), LAMBDA d :
    Then(scan_date_time_separator(d.rem), LAMBDA t :
    Then(scan_number(t.rem, 2, 2), LAMBDA h :
    Then(scan_char(h.rem, COLON), LAMBDA c1 :
    Then(scan_number(c1.rem, 2, 2), LAMBDA mi :
    Then(scan_char(mi.rem, COLON), LAMBDA c2 :
    Then(scan_number(c2.rem, 2, 2), LAMBDA sec :
    Then(scan_fraction(sec.rem), LAMBDA frac :
    Then(scan_timezone_offset_zulu(frac.rem), LAMBDA off :
        IF off.val <= -1440 \/ off.val >= 1440 THEN Err("input is out of range")
        ELSE IF off.rem # <<>> THEN Err("trailing input")
        ELSE IF ~ValidDate(y.val, mo.val, d.val) \/ ~ValidTime(h.val, mi.val, sec.val)
             THEN Err("input is out of range")
        ELSE Ok(with_timezone_utc(
                    NaiveDateTime(y.val, mo.val, d.val, h.val, mi.val, sec.val, frac.val),
                    off.val),
                <<>>))))))))))))))

\* str::trim_left on ASCII input.
RECURSIVE trim_left(_)
trim_left(s) ==
    IF s # <<>> /\ s[1] \in {9, 10, 11, 12, 13, 32} THEN trim_left(Tail(s)) ELSE s

\* format::scan::short_month0, plus one: the first three bytes, any case.
ToLower(b) == IF b >= 65 /\ b <= 90 THEN b + 32 ELSE b

MonthNames ==
    << <<106, 97, 110>>, <<102, 101, 98>>, <<109, 97, 114>>, <<97, 112, 114>>,
       <<109, 97, 121>>, <<106, 117, 110>>, <<106, 117, 108>>, <<97, 117, 103>>,
       <<115, 101, 112>>, <<111, 99, 116>>, <<110, 111, 118>>, <<100, 101, 99>> >>

scan_short_month(s) ==
    IF Len(s) < 3 THEN Err("premature end of input")
    ELSE Bind({m \in 1..12 : MonthNames[m] = <<ToLower(s[1]), ToLower(s[2]), ToLower(s[3])>>},
              LAMBDA hits :
                IF hits = {} THEN Err("input contains invalid characters")
                ELSE Ok(CHOOSE m \in hits : TRUE, Drop(s, 3)))

\* A Numeric item of a format string: leading whitespace, then 1..width digits.
scan_numeric(s, width) == scan_number(trim_left(s), 1, width)

\* The signed Numeric item %Y.
scan_year(s) ==
    Bind(trim_left(s), LAMBDA t :
        IF t # <<>> /\ t[1] = 45
        THEN Then(scan_number(Tail(t), 1, 20), LAMBDA r : Ok(0 - r.val, r.rem))
        ELSE IF t # <<>> /\ t[1] = 43 THEN scan_number(Tail(t), 1, 20)
        ELSE scan_number(t, 1, 4))

\* NaiveDateTime parsed from s by the format "%h %d %H:%M:%S %Y".
parse_month_day_time_year(s) ==
    Then(scan_short_month(s), LAMBDA mo :
    Then(scan_numeric(trim_left(mo.rem), 2), LAMBDA d :
    Then(scan_numeric(trim_left(d.rem), 2), LAMBDA h :
    Then(scan_char(h.rem, COLON), LAMBDA c1 :
    Then(scan_numeric(c1.rem, 2), LAMBDA mi :
    Then(scan_char(mi.rem, COLON), LAMBDA c2 :
    Then(scan_numeric(c2.rem, 2), LAMBDA sec :
    Then(scan_year(trim_left(sec.rem)), LAMBDA y :
        IF y.rem # <<>> THEN Err("trailing input")
        ELSE IF ~ValidDate(y.val, mo.val, d.val) \/ ~ValidTime(h.val, mi.val, sec.val)
             THEN Err("input is out of range")
        ELSE Ok(NaiveDateTime(y.val, mo.val, d.val, h.val, mi.val, sec.val, 0), <<>>)))))))))

(***************************************************************************)
(* data/parsers.rs: the timestamps                                         *)
(***************************************************************************)
iso8601_timestamp(i) ==
    Then(until(i, SP), LAMBDA u :
        IF ~is_utf8(u.val) THEN Err("invalid utf-8")
        ELSE Then(parse_from_rfc3339(u.val), LAMBDA p : Ok(p.val, u.rem)))

TIMESTAMP_LEN == 15

YEAR_SUFFIX == <<32, 49, 57, 56, 48>>

Dec == <<68, 101, 99>>

Jan == <<74, 97, 110>>

\* The year of now, whatever the month.
year_offset_never(month_day_h_m_s, now) == 0

year_offset(month_day_h_m_s, now) ==
    IF Take(month_day_h_m_s, 3) = Dec /\ now.month = 1 THEN -1
    ELSE IF Take(month_day_h_m_s, 3) = Jan /\ now.month = 12 THEN 1
    ELSE 0

\* Local.ymd(year, month, day).and_hms(..).with_timezone(&Utc); Local.ymd
\* panics on a date that does not exist.
with_year(year, local, tz) ==
    IF ~ValidDate(year, local.month, local.day) THEN Panic("No such local time")
    ELSE Ok(with_timezone_utc(
                DateTime(year, local.month, local.day, local.hour, local.minute,
                         local.second, 0),
                tz),
            <<>>)

loose_timestamp(i, now, tz) ==
    Bind(iso8601_timestamp(i), LAMBDA iso :
        IF iso.ok THEN iso
        ELSE Then(take(i, TIMESTAMP_LEN), LAMBDA t :
                IF ~is_utf8(t.val) THEN Err("invalid utf-8")
                ELSE Then(parse_month_day_time_year(t.val \o YEAR_SUFFIX), LAMBDA local :
                     Then(with_year(now.year + year_offset(t.val, now), local.val, tz),
                          LAMBDA utc : Ok(utc.val, t.rem)))))

(***************************************************************************)
(* data/syslog.rs                                                          *)
(***************************************************************************)
\* A split of the raw value that takes four bits for the severity.
Priority_from_raw_nibbles(raw) == [facility |-> raw \div 16, severity |-> raw % 16]

Priority_from_raw(raw) == [facility |-> raw \div 8, severity |-> raw % 8]

DEFAULT_PRIORITY == 13

NoTimestamp == [some |-> FALSE, v |-> DateTime(0, 0, 0, 0, 0, 0, 0)]

\* A panic while splitting is the value "panic" in place of the element.
StructuredDataElement_from_str(s) ==
    Bind(split(s, <<SP>>), LAMBDA items :
    Bind([k \in 2..Len(items) |-> split(items[k], <<EQUALS>>)], LAMBDA pieces :
        IF \E k \in 2..Len(items) : Len(pieces[k]) < 2
        THEN Panic("incorrect structured data format - no param value")
        ELSE Ok([id |-> items[1],
                 param |-> [k \in 1..(Len(items) - 1) |->
                              <<pieces[k + 1][1], trim_matches(pieces[k + 1][2], DQUOTE)>>]],
                <<>>)))

StructuredDataList_from_str(s) ==
    IF 1 > Len(s) - 2 \/ ~is_char_boundary(s, 1) \/ ~is_char_boundary(s, Len(s) - 2)
    THEN Panic("byte index is out of bounds or not a char boundary")
    ELSE Bind(split(SubSeq(s, 2, Len(s) - 2), <<RBRACKET, LBRACKET>>), LAMBDA pieces :
         Bind([k \in 1..Len(pieces) |-> StructuredDataElement_from_str(pieces[k])], LAMBDA list :
            IF \E k \in 1..Len(list) : list[k].panic THEN Panic("NOPE")
            ELSE Ok([k \in 1..Len(list) |-> list[k].val], <<>>)))

Message(pri, ts, host, app, proc, mid, sd, text) ==
    [priority |-> pri, timestamp |-> ts, hostname |-> host, app_name |-> app,
     proc_id |-> proc, message_id |-> mid, structured_data |-> sd, message |-> text]

EmptyMessage(raw) ==
    Message(Priority_from_raw(raw), NoTimestamp, None, None, None, None, None, None)

\* What from_rfc3164_bytes returns: the fields it found, the rest as message.
\* The result with the tag taken out: what is before the first ':' as the
\* app-name, and what is after it as the message.
rfc3164_result_with_tag(raw, timestamp, hostname, unparsed) ==
    LET parts == split(unparsed, <<COLON>>)
    IN  IF Len(parts) < 2
        THEN Ok(Message(Priority_from_raw(raw), Some(timestamp), hostname, None, None, None,
                        None,
                        IF Len(unparsed) > 0 THEN Some(from_utf8_lossy(unparsed)) ELSE None),
                <<>>)
        ELSE Ok(Message(Priority_from_raw(raw), Some(timestamp), hostname, Some(parts[1]),
                        None, None, None,
                        Some(from_utf8_lossy(Drop(unparsed, Len(parts[1]) + 1)))),
                <<>>)

rfc3164_result(raw, timestamp, hostname, unparsed) ==
    Ok(Message(Priority_from_raw(raw), Some(timestamp), hostname, None, None, None, None,
               IF Len(unparsed) > 0 THEN Some(from_utf8_lossy(unparsed)) ELSE None),
       <<>>)

\* The slice after a parser that may have failed: a failed parser consumes nothing.
RemOr(r, i) == IF r.ok THEN r.rem ELSE i

\* from_rfc3164_bytes with the four parsers tried one after the other instead
\* of each inside the success of the one before.
from_rfc3164_bytes_unnested(msg, now, tz) ==
    Bind(priority(msg), LAMBDA p :
    Bind(loose_timestamp(RemOr(p, msg), now, tz), LAMBDA t :
    Bind(byte(RemOr(t, RemOr(p, msg)), SP), LAMBDA sp :
    Bind(header_item(RemOr(sp, RemOr(t, RemOr(p, msg))), "hostname"), LAMBDA h :
        IF t.panic THEN t
        ELSE rfc3164_result(IF p.ok THEN p.val ELSE DEFAULT_PRIORITY,
                            IF t.ok THEN t.val ELSE now,
                            IF h.ok THEN h.val ELSE None,
                            RemOr(h, RemOr(sp, RemOr(t, RemOr(p, msg)))))))))

from_rfc3164_bytes(msg, now, tz) ==
    Bind(priority(msg), LAMBDA p :
        IF ~p.ok THEN rfc3164_result(DEFAULT_PRIORITY, now, None, msg)
        ELSE Bind(loose_timestamp(p.rem, now, tz), LAMBDA t :
            IF t.panic THEN t
            ELSE IF ~t.ok THEN rfc3164_result(p.val, now, None, p.rem)
            ELSE Bind(byte(t.rem, SP), LAMBDA sp :
                IF ~sp.ok THEN rfc3164_result(p.val, t.val, None, t.rem)
                ELSE Bind(header_item(sp.rem, "hostname"), LAMBDA h :
                    IF ~h.ok THEN rfc3164_result(p.val, t.val, None, sp.rem)
                    ELSE rfc3164_result(p.val, t.val, h.val, h.rem)))))

\* The end of the structured data: the elements, and where the message starts.
structured_data_end(sd_and_msg, ii, following) ==
    Then(from_utf8(Take(sd_and_msg, ii + 1)), LAMBDA text :
    Then(StructuredDataList_from_str(text.val), LAMBDA list :
        Ok([structured_data |-> Some(list.val),
            message_idx |-> ii + (IF following # -1 THEN 2 ELSE 1)],
           <<>>)))

\* The walk over the bytes after the leading '[': idx is the loop's counter,
\* which is also the number of bytes the iterator has yielded.  The result is
\* the idx of the ']' that ends the structured data, or -1 when the bytes run
\* out first.
RECURSIVE structured_data_scan(_, _)
structured_data_scan(sd_and_msg, idx) ==
    IF idx >= Len(sd_and_msg) THEN -1
    ELSE IF sd_and_msg[idx + 1] # RBRACKET THEN structured_data_scan(sd_and_msg, idx + 1)
    ELSE IF At(sd_and_msg, idx + 2) = LBRACKET THEN structured_data_scan(sd_and_msg, idx + 2)
    ELSE idx

\* The loop over the bytes after the message id.
structured_data_loop(sd_and_msg) ==
    IF Len(sd_and_msg) = 0 \/ sd_and_msg[1] = HYPHEN
    THEN Ok([structured_data |-> None, message_idx |-> 2], <<>>)
    ELSE IF sd_and_msg[1] # LBRACKET
    THEN Err("invalid syslog structured data format - no leading '['")
    ELSE Bind(structured_data_scan(sd_and_msg, 1), LAMBDA ii :
            IF ii = -1 THEN Ok([structured_data |-> None, message_idx |-> 2], <<>>)
            ELSE structured_data_end(sd_and_msg, ii, At(sd_and_msg, ii + 2)))

\* The byte order mark left on the message, which is then decoded lossily.
strip_bom_never(rest) == [is_utf8 |-> FALSE, msg |-> rest]

\* The UTF-8 byte order mark in front of a message, taken off.
strip_bom(rest) ==
    IF Len(rest) >= 3 /\ Take(rest, 3) = BOM
    THEN [is_utf8 |-> TRUE, msg |-> Drop(rest, 3)]
    ELSE [is_utf8 |-> FALSE, msg |-> rest]

\* The message after the structured data: Ok(None), Ok(Some(text)) or an error.
message_of(sd_and_msg, message_idx) ==
    IF message_idx > Len(sd_and_msg) THEN Ok(None, <<>>)
    ELSE Bind(strip_bom(Drop(sd_and_msg, message_idx)), LAMBDA m :
            IF Len(m.msg) = 0 THEN Ok(None, <<>>)
            ELSE IF m.is_utf8
                 THEN Then(from_utf8(m.msg), LAMBDA text : Ok(Some(trim_end(text.val)), <<>>))
            ELSE Ok(Some(trim_end(from_utf8_lossy(m.msg))), <<>>))

\* The timestamp of an RFC5424 header: an ISO 8601 timestamp or the NIL "-".
rfc5424_timestamp(rem) ==
    Bind(iso8601_timestamp(rem), LAMBDA ts_attempt :
        IF ts_attempt.ok THEN Ok(Some(ts_attempt.val), ts_attempt.rem)
        ELSE Bind(byte(rem, HYPHEN), LAMBDA nil :
                IF nil.ok THEN Ok(NoTimestamp, nil.rem) ELSE ts_attempt))

\* A version check that takes every version but the NIL "-".
version_is_present(version_item) == version_item.some

\* match version_item { Some("1") => (), _ => return Err(..) }
version_is_1(version_item) == version_item = Some(<<49>>)

from_rfc5424_bytes(msg) ==
    Then(priority(msg), LAMBDA p :
    Then(header_item(p.rem, "version"), LAMBDA version_item :
        IF ~version_is_1(version_item.val) THEN Err("invalid message, version not 1")
        ELSE Then(rfc5424_timestamp(version_item.rem), LAMBDA ts :
             Then(byte(ts.rem, SP), LAMBDA sp :
             Then(header_item(sp.rem, "hostname"), LAMBDA hostname :
             Then(header_item(hostname.rem, "app_name"), LAMBDA app_name :
             Then(header_item(app_name.rem, "proc_id"), LAMBDA proc_id :
             Then(header_item(proc_id.rem, "message_id"), LAMBDA message_id :
             Then(structured_data_loop(message_id.rem), LAMBDA sd :
             Then(message_of(message_id.rem, sd.val.message_idx), LAMBDA message :
                Ok(Message(Priority_from_raw(p.val), ts.val, hostname.val, app_name.val,
                           proc_id.val, message_id.val, sd.val.structured_data,
                           message.val),
                   <<>>)))))))))))

\* unwrap_or_else: the fallback runs on an error value; a panic is not one.
from_bytes(s, now, tz) ==
    Bind(from_rfc5424_bytes(s), LAMBDA r :
        IF r.ok \/ r.panic THEN r ELSE from_rfc3164_bytes(s, now, tz))

(***************************************************************************)
(* data/syslog.rs: the labels.  data/mod.rs, data/clef.rs: the projection  *)
(* of a Message into a CLEF document.                                      *)
(***************************************************************************)
\* emerg, alert, crit, err, warning, notice, info, debug
SeverityLabels ==
    << <<101, 109, 101, 114, 103>>,
       <<97, 108, 101, 114, 116>>,
       <<99, 114, 105, 116>>,
       <<101, 114, 114>>,
       <<119, 97, 114, 110, 105, 110, 103>>,
       <<110, 111, 116, 105, 99, 101>>,
       <<105, 110, 102, 111>>,
       <<100, 101, 98, 117, 103>> >>

\* kern, user, mail, daemon, auth, syslog, lpr, news, uucp, cron, authpriv, ftp,
\* ntp, security, console, solaris-cron, local0 .. local7
FacilityLabels ==
    << <<107, 101, 114, 110>>,
       <<117, 115, 101, 114>>,
       <<109, 97, 105, 108>>,
       <<100, 97, 101, 109, 111, 110>>,
       <<97, 117, 116, 104>>,
       <<115, 121, 115, 108, 111, 103>>,
       <<108, 112, 114>>,
       <<110, 101, 119, 115>>,
       <<117, 117, 99, 112>>,
       <<99, 114, 111, 110>>,
       <<97, 117, 116, 104, 112, 114, 105, 118>>,
       <<102, 116, 112>>,
       <<110, 116, 112>>,
       <<115, 101, 99, 117, 114, 105, 116, 121>>,
       <<99, 111, 110, 115, 111, 108, 101>>,
       <<115, 111, 108, 97, 114, 105, 115, 45, 99, 114, 111, 110>>,
       <<108, 111, 99, 97, 108, 48>>,
       <<108, 111, 99, 97, 108, 49>>,
       <<108, 111, 99, 97, 108, 50>>,
       <<108, 111, 99, 97, 108, 51>>,
       <<108, 111, 99, 97, 108, 52>>,
       <<108, 111, 99, 97, 108, 53>>,
       <<108, 111, 99, 97, 108, 54>>,
       <<108, 111, 99, 97, 108, 55>> >>

UNKNOWN == <<117, 110, 107, 110, 111, 119, 110>>

Priority_severity(p) == IF p.severity <= 6 THEN SeverityLabels[p.severity + 1] ELSE SeverityLabels[8]

Priority_facility(p) == IF p.facility <= 23 THEN FacilityLabels[p.facility + 1] ELSE UNKNOWN

\* The keys of a CLEF document: "@t", "@l", "@m", "@mt", "@x" and the header
\* projections "facility", "hostname", "app_name", "proc_id", "message_id".
KEY_T == <<64, 116>>

KEY_L == <<64, 108>>

KEY_M == <<64, 109>>

KEY_MT == <<64, 109, 116>>

KEY_X == <<64, 120>>

KEY_FACILITY == <<102, 97, 99, 105, 108, 105, 116, 121>>

KEY_HOSTNAME == <<104, 111, 115, 116, 110, 97, 109, 101>>

KEY_APP_NAME == <<97, 112, 112, 95, 110, 97, 109, 101>>

KEY_PROC_ID == <<112, 114, 111, 99, 95, 105, 100>>

KEY_MESSAGE_ID == <<109, 101, 115, 115, 97, 103, 101, 95, 105, 100>>

\* A serde_json::Value: a string, or the parameters of one element.
JsonString(s) == [kind |-> "string", str |-> s, param |-> <<>>]

\* json!(element.param) of a Vec<(&str, &str)>: serde writes a Vec as an array
\* and a tuple as an array, so the value is the array of the [name, value]
\* pairs in their order, names that repeat included.
JsonParams(param) == [kind |-> "params", str |-> <<>>, param |-> param]

\* HashMap::insert: a later value under the same key replaces the earlier one.
Insert(map, k, v) == [x \in (DOMAIN map) \cup {k} |-> IF x = k THEN v ELSE map[x]]

InsertSome(map, k, opt) == IF opt.some THEN Insert(map, k, JsonString(opt.v)) ELSE map

RECURSIVE insert_elements(_, _)
insert_elements(map, sd) ==
    IF sd = <<>> THEN map
    ELSE insert_elements(Insert(map, sd[1].id, JsonParams(sd[1].param)), Tail(sd))

EmptyMap == [x \in {} |-> JsonString(<<>>)]

to_clef(m) ==
    LET a0 == Insert(EmptyMap, KEY_FACILITY, JsonString(Priority_facility(m.priority)))
        a1 == InsertSome(a0, KEY_HOSTNAME, m.hostname)
        a2 == InsertSome(a1, KEY_APP_NAME, m.app_name)
        a3 == InsertSome(a2, KEY_PROC_ID, m.proc_id)
        a4 == InsertSome(a3, KEY_MESSAGE_ID, m.message_id)
        additional == IF m.structured_data.some
                      THEN insert_elements(a4, m.structured_data.v)
                      ELSE a4
    IN  [timestamp |-> m.timestamp,
         level |-> Some(Priority_severity(m.priority)),
         message |-> m.message,
         message_template |-> None,
         exception |-> None,
         additional |-> additional]

\* The value of to_clef before any message has been projected.
NoClef ==
    [timestamp |-> NoTimestamp, level |-> None, message |-> None,
     message_template |-> None, exception |-> None, additional |-> EmptyMap]

\* serde_json: null.
JsonNull == [kind |-> "null", str |-> <<>>, param |-> <<>>]

\* n in decimal, in `width` digits.
RECURSIVE format_digits(_, _)
format_digits(n, width) ==
    IF width = 0 THEN <<>> ELSE Append(format_digits(n \div 10, width - 1), 48 + (n % 10))

\* chrono: the fraction of a second in 3, 6 or 9 digits, and nothing when it is zero.
format_nanosecond(nano) ==
    IF nano = 0 THEN <<>>
    ELSE IF nano % 1000000 = 0 THEN <<DOT>> \o format_digits(nano \div 1000000, 3)
    ELSE IF nano % 1000 = 0 THEN <<DOT>> \o format_digits(nano \div 1000, 6)
    ELSE <<DOT>> \o format_digits(nano, 9)

\* chrono: a DateTime<Utc> as text, 2003-10-11T22:14:15.003Z
format_timestamp(dt) ==
    format_digits(dt.year, 4) \o <<HYPHEN>> \o format_digits(dt.month, 2) \o <<HYPHEN>>
        \o format_digits(dt.day, 2) \o <<84>> \o format_digits(dt.hour, 2) \o <<COLON>>
        \o format_digits(dt.minute, 2) \o <<COLON>> \o format_digits(dt.second, 2)
        \o format_nanosecond(dt.nano) \o <<90>>

\* One entry of a JSON object.
Entry(key, value) == [key |-> key, value |-> value]

\* A field with no attribute but its name: None is written as null.
SerializeField(key, opt) == <<Entry(key, IF opt.some THEN JsonString(opt.v) ELSE JsonNull)>>

\* #[serde(skip_serializing_if = "Option::is_none")]: None writes no entry.
SerializeFieldIfSome(key, opt) == IF opt.some THEN <<Entry(key, JsonString(opt.v))>> ELSE <<>>

\* The timestamp of a document, as the text it is written as.
TimestampText(opt) == IF opt.some THEN Some(format_timestamp(opt.v)) ELSE None

\* #[derive(Serialize)] of clef::Message: the entries of the fields in the
\* order of their declaration, and the entries of the flattened map, which
\* are written in the order of the HashMap, in no order the program fixes.
Serialize(c) ==
    [fields |-> SerializeField(KEY_T, TimestampText(c.timestamp))
                    \o SerializeField(KEY_L, c.level)
                    \o SerializeFieldIfSome(KEY_M, c.message)
                    \o SerializeFieldIfSome(KEY_MT, c.message_template)
                    \o SerializeFieldIfSome(KEY_X, c.exception),
     additional |-> c.additional]

(***************************************************************************)
(* The decoder's inputs.  Datagrams are every byte string of at most       *)
(* MaxLen bytes over a small alphabet, plus datagrams put together from    *)
(* fragments: the shapes of RFC5424 and of RFC3164, well-formed and not.   *)
(***************************************************************************)
MaxLen == 3

\* '<', '>', '1', '-', ' ', and a byte that is never valid UTF-8.
Alphabet == {LT, GT, 49, HYPHEN, SP, 255}

ShortDatagrams == UNION {[1..n -> Alphabet] : n \in 0..MaxLen}

\* "<0>", "<165>", "<256>"
PriorityFragments ==
    { <<60, 48, 62>>, <<60, 49, 54, 53, 62>>, <<60, 50, 53, 54, 62>> }

\* "1 ", "2 "
VersionFragments ==
    { <<49, 32>>, <<50, 32>> }

\* "- ", "2003-10-11T22:14:15.003Z ", "x "
TimestampFragments ==
    { <<45, 32>>,
      <<50, 48, 48, 51, 45, 49, 48, 45, 49, 49, 84, 50, 50, 58, 49, 52, 58, 49, 53, 46, 48, 48, 51, 90, 32>>,
      <<120, 32>> }

\* hostname, app-name, proc-id, message-id: "- - - - ", "h a p m ", "h a - "
HeaderFragments ==
    { <<45, 32, 45, 32, 45, 32, 45, 32>>,
      <<104, 32, 97, 32, 112, 32, 109, 32>>, <<104, 32, 97, 32, 45, 32>> }

\* "-", "[]", "[a]", "[id]", `[i a="b"]`, "[i a]", `[i a="b c"]`,
\* `[i a="1"][j b="2"]`, "[ab", "", "x", "[e-acute]"
StructuredDataFragments ==
    { <<45>>, <<91, 93>>, <<91, 97, 93>>, <<91, 105, 100, 93>>,
      <<91, 105, 32, 97, 61, 34, 98, 34, 93>>, <<91, 105, 32, 97, 93>>,
      <<91, 105, 32, 97, 61, 34, 98, 32, 99, 34, 93>>,
      <<91, 105, 32, 97, 61, 34, 49, 34, 93, 91, 106, 32, 98, 61, 34, 50, 34, 93>>,
      <<91, 97, 98>>, <<>>, <<120>>, <<91, 195, 169, 93>> }

\* "", " ", " hi", " hi \n", " <BOM>hi", " <BOM><FF>", "xhi"
MessageFragments ==
    { <<>>, <<32>>, <<32, 104, 105>>, <<32, 104, 105, 32, 10>>,
      <<32, 239, 187, 191, 104, 105>>, <<32, 239, 187, 191, 255>>,
      <<120, 104, 105>> }

Rfc5424Datagrams ==
    { p \o v \o t \o h \o sd \o m :
        p \in PriorityFragments, v \in VersionFragments, t \in TimestampFragments,
        h \in HeaderFragments, sd \in StructuredDataFragments, m \in MessageFragments }

\* "", "<34>", "<13>"
Rfc3164PriorityFragments ==
    { <<>>, <<60, 51, 52, 62>>, <<60, 49, 51, 62>> }

\* "Oct 11 22:14:15", "Feb 29 12:00:00", "Dec 31 23:59:59", "Jan  1 00:00:00",
\* "dec 31 23:59:59", "2020-02-13T00:51:39Z", "Oct 11 22:14:1", "Oct 32 00:00:00"
LooseTimestampFragments ==
    { <<79, 99, 116, 32, 49, 49, 32, 50, 50, 58, 49, 52, 58, 49, 53>>,
      <<70, 101, 98, 32, 50, 57, 32, 49, 50, 58, 48, 48, 58, 48, 48>>,
      <<68, 101, 99, 32, 51, 49, 32, 50, 51, 58, 53, 57, 58, 53, 57>>,
      <<74, 97, 110, 32, 32, 49, 32, 48, 48, 58, 48, 48, 58, 48, 48>>,
      <<100, 101, 99, 32, 51, 49, 32, 50, 51, 58, 53, 57, 58, 53, 57>>,
      <<50, 48, 50, 48, 45, 48, 50, 45, 49, 51, 84, 48, 48, 58, 53, 49, 58, 51, 57, 90>>,
      <<79, 99, 116, 32, 49, 49, 32, 50, 50, 58, 49, 52, 58, 49>>,
      <<79, 99, 116, 32, 51, 50, 32, 48, 48, 58, 48, 48, 58, 48, 48>> }

\* "", " ", " h m", " mymachine su: x", "h", " - m", " <FF> m"
TailFragments ==
    { <<>>, <<32>>, <<32, 104, 32, 109>>,
      <<32, 109, 121, 109, 97, 99, 104, 105, 110, 101, 32, 115, 117, 58, 32, 120>>,
      <<104>>, <<32, 45, 32, 109>>, <<32, 255, 32, 109>> }

Rfc3164Datagrams ==
    { p \o t \o r :
        p \in Rfc3164PriorityFragments, t \in LooseTimestampFragments, r \in TailFragments }

\* Version tokens other than "1": "", "0", "11", "-", and "1" with no space after it.
OtherVersionFragments ==
    { <<32>>, <<48, 32>>, <<49, 49, 32>>, <<45, 32>>, <<49>> }

\* "- - - - - -", "- h a p m - hi"
AfterVersionFragments ==
    { <<45, 32, 45, 32, 45, 32, 45, 32, 45, 32, 45>>,
      <<45, 32, 104, 32, 97, 32, 112, 32, 109, 32, 45, 32, 104, 105>> }

VersionDatagrams ==
    { p \o v \o r :
        p \in PriorityFragments, v \in OtherVersionFragments, r \in AfterVersionFragments }

\* Well-formed structured-data elements: an id and up to MaxParams
\* parameters, each a name and a value.
MaxParams == 2

\* "id", "x"
ElementIds ==
    { <<105, 100>>, <<120>> }

\* a="1", a="", a="x=y", b="1", b="", b="x=y"
ElementParams ==
    { <<n, v>> : n \in {<<97>>, <<98>>}, v \in {<<49>>, <<>>, <<120, 61, 121>>} }

Elements ==
    { [id |-> i, param |-> ps] :
        i \in ElementIds, ps \in UNION {[1..k -> ElementParams] : k \in 0..MaxParams} }

\* ` n1="v1" ... nk="vk"`
RECURSIVE ParamsText(_)
ParamsText(ps) ==
    IF ps = <<>> THEN <<>>
    ELSE <<SP>> \o ps[1][1] \o <<EQUALS, DQUOTE>> \o ps[1][2] \o <<DQUOTE>> \o ParamsText(Tail(ps))

\* `[id n1="v1" ... nk="vk"]`
ElementText(e) == <<LBRACKET>> \o e.id \o ParamsText(e.param) \o <<RBRACKET>>

\* "<0>1 - - - - - " and the element.
ElementDatagram(e) == <<60, 48, 62, 49, 32, 45, 32, 45, 32, 45, 32, 45, 32, 45, 32>> \o ElementText(e)

ElementDatagrams == { ElementDatagram(e) : e \in Elements }

\* Payloads with nothing but whitespace, with and without a byte-order mark,
\* and payloads with text after one byte-order mark or two.
BlankPayloads ==
    { <<SP>>, <<10>>, <<SP, 13, 10>>, BOM, BOM \o <<SP>>, BOM \o <<10>>,
      <<SP>> \o BOM, <<104, 105>>, BOM \o <<104, 105, 10>>, BOM \o BOM \o <<104, 105>> }

\* "<0>1 - - - - - " and structured data, a space and a payload.
PayloadDatagrams ==
    { <<LT, 48, GT, 49, SP, HYPHEN, SP, HYPHEN, SP, HYPHEN, SP, HYPHEN, SP, HYPHEN, SP>>
            \o sd \o <<SP>> \o m :
        sd \in {<<HYPHEN>>, <<91, 120, 32, 97, 61, 34, 49, 34, 93>>}, m \in BlankPayloads }

Datagrams ==
    ShortDatagrams \cup Rfc5424Datagrams \cup Rfc3164Datagrams \cup VersionDatagrams
        \cup ElementDatagrams \cup PayloadDatagrams

\* The clock: January, December and mid-year, in leap and common years.
Nows ==
    { DateTime(2021, 1, 15, 10, 0, 0, 0), DateTime(2020, 12, 31, 23, 59, 59, 0),
      DateTime(2021, 6, 1, 0, 0, 0, 0), DateTime(2020, 6, 1, 0, 0, 0, 0) }

\* The machine's zone, minutes east of UTC.
TzOffsets == {-300, 0}

(***************************************************************************)
(* The server's inputs.                                                    *)
(***************************************************************************)
\* How many datagrams reach the socket, and how many receive errors it reports.
MaxDatagrams == 2

MaxSocketErrors == 1

\* How many threads call read_as_clef at the same time.
NumCallers == 2

\* The ingestion loop calls process(msg) itself: it is caller 0.
WORKER == 0

Callers == 1..NumCallers

\* A zero-length datagram, "<0>1 - - - - - -", "<0>1 - - - - - []" and "hi".
EMPTY_DATAGRAM == <<>>

FREE_TEXT_DATAGRAM == <<104, 105>>

NIL_DATAGRAM == <<60, 48, 62, 49, 32, 45, 32, 45, 32, 45, 32, 45, 32, 45, 32, 45>>

EMPTY_ELEMENT_DATAGRAM == <<60, 48, 62, 49, 32, 45, 32, 45, 32, 45, 32, 45, 32, 45, 32, 91, 93>>

ServerDatagrams == {EMPTY_DATAGRAM, NIL_DATAGRAM, EMPTY_ELEMENT_DATAGRAM}

CallerDatagrams == {NIL_DATAGRAM, EMPTY_ELEMENT_DATAGRAM, FREE_TEXT_DATAGRAM}

ServerNow == DateTime(2021, 1, 15, 10, 0, 0, 0)

(***************************************************************************)
(* State.                                                                  *)
(***************************************************************************)
VARIABLES
    input,        \* the datagram handed to the decoder
    now,          \* Utc::now()
    tz,           \* the Local zone
    called,       \* which decoder entry point has run: "none" before the call
    decoded,      \* what it returned
    clef,         \* what to_clef returned
    state,        \* the server: Building, BuildFailed, Built, Listening, Stopped, Failed, Panicked
    run_result,   \* what Server::run gave its caller: none, Ok, panic
    close,        \* the oneshot channel of the Handle: open, sent, dropped, refused
    ctrl_c,       \* the interrupt signal has been delivered
    sockbuf,      \* datagrams waiting in the socket, oldest first
    sockerr,      \* a receive error is waiting in the socket
    arrived,      \* datagrams that reached the socket so far
    errors,       \* receive errors the socket reported so far
    receive_ok, receive_err, process_ok, process_err,
    calls,        \* each read_as_clef call: where it is, its datagram, its number, its document
    lock,         \* the threads holding the stdout lock
    stdout        \* what has been written to stdout, in order

decodeVars == <<input, now, tz, called, decoded>>

counters == <<receive_ok, receive_err, process_ok, process_err>>

socketVars == <<sockbuf, sockerr, arrived, errors>>

signalVars == <<close, ctrl_c>>

serverVars == <<state, run_result, signalVars, socketVars, counters>>

stdoutVars == <<calls, lock, stdout>>

vars == <<decodeVars, clef, serverVars, stdoutVars>>

\* A read_as_clef call that is not running.
IdleCall == [pc |-> "idle", msg |-> <<>>, id |-> 0, doc |-> NoClef]

ServerIdle ==
    /\ state = "Building"
    /\ run_result = "none"
    /\ close = "open"
    /\ ctrl_c = FALSE
    /\ sockbuf = <<>>
    /\ sockerr = FALSE
    /\ arrived = 0
    /\ errors = 0
    /\ receive_ok = 0
    /\ receive_err = 0
    /\ process_ok = 0
    /\ process_err = 0

StdoutIdle ==
    /\ calls = [c \in {WORKER} \cup Callers |-> IdleCall]
    /\ lock = {}
    /\ stdout = <<>>

DecodeIdle ==
    /\ input = <<>>
    /\ called = "none"
    /\ decoded = Err("")
    /\ clef = NoClef

(***************************************************************************)
(* The decoder's three entry points, each applied once to the input.       *)
(***************************************************************************)
DecodeInit ==
    /\ input \in Datagrams
    /\ now \in Nows
    /\ tz \in TzOffsets
    /\ called = "none"
    /\ decoded = Err("")
    /\ clef = NoClef
    /\ ServerIdle
    /\ StdoutIdle

CallFromBytes ==
    /\ called = "none"
    /\ called' = "from_bytes"
    /\ decoded' = from_bytes(input, now, tz)
    /\ UNCHANGED <<input, now, tz, clef, serverVars, stdoutVars>>

CallFromRfc5424Bytes ==
    /\ called = "none"
    /\ called' = "from_rfc5424_bytes"
    /\ decoded' = from_rfc5424_bytes(input)
    /\ UNCHANGED <<input, now, tz, clef, serverVars, stdoutVars>>

CallFromRfc3164Bytes ==
    /\ called = "none"
    /\ called' = "from_rfc3164_bytes"
    /\ decoded' = from_rfc3164_bytes(input, now, tz)
    /\ UNCHANGED <<input, now, tz, clef, serverVars, stdoutVars>>

DecodeNext == CallFromBytes \/ CallFromRfc5424Bytes \/ CallFromRfc3164Bytes

SpecDecode == DecodeInit /\ [][DecodeNext]_vars

(***************************************************************************)
(* to_clef applied to what from_bytes returned.  The datagrams are RFC5424 *)
(* datagrams whose structured-data ids are ordinary names, the reserved    *)
(* CLEF keys and the names of the header projections.                      *)
(***************************************************************************)
\* "<0>1 ", "<165>1 "
ClefPriorityFragments ==
    { <<60, 48, 62, 49, 32>>, <<60, 49, 54, 53, 62, 49, 32>> }

\* "- ", "2003-10-11T22:14:15.003Z "
ClefTimestampFragments ==
    { <<45, 32>>,
      <<50, 48, 48, 51, 45, 49, 48, 45, 49, 49, 84, 50, 50, 58, 49, 52, 58, 49, 53, 46, 48, 48, 51, 90, 32>> }

\* "- - - - ", "h a p m ", "h - - - "
ClefHeaderFragments ==
    { <<45, 32, 45, 32, 45, 32, 45, 32>>, <<104, 32, 97, 32, 112, 32, 109, 32>>,
      <<104, 32, 45, 32, 45, 32, 45, 32>> }

\* -, [x a="b"], [hostname a="b"], [facility a="b"], [app_name a="b"], [proc_id a="b"]
\* [message_id a="b"], [@t a="b"], [@l a="b"], [@m a="b"], [@mt a="b"], [@x a="b"]
\* [x a="b"][x c="d"], [x a="1" a="2"], [__hostname a="b"][hostname c="d"]
ClefStructuredDataFragments ==
    { <<45>>, <<91, 120, 32, 97, 61, 34, 98, 34, 93>>,
      <<91, 104, 111, 115, 116, 110, 97, 109, 101, 32, 97, 61, 34, 98, 34, 93>>,
      <<91, 102, 97, 99, 105, 108, 105, 116, 121, 32, 97, 61, 34, 98, 34, 93>>,
      <<91, 97, 112, 112, 95, 110, 97, 109, 101, 32, 97, 61, 34, 98, 34, 93>>,
      <<91, 112, 114, 111, 99, 95, 105, 100, 32, 97, 61, 34, 98, 34, 93>>,
      <<91, 109, 101, 115, 115, 97, 103, 101, 95, 105, 100, 32, 97, 61, 34, 98, 34, 93>>,
      <<91, 64, 116, 32, 97, 61, 34, 98, 34, 93>>,
      <<91, 64, 108, 32, 97, 61, 34, 98, 34, 93>>,
      <<91, 64, 109, 32, 97, 61, 34, 98, 34, 93>>,
      <<91, 64, 109, 116, 32, 97, 61, 34, 98, 34, 93>>,
      <<91, 64, 120, 32, 97, 61, 34, 98, 34, 93>>,
      <<91, 120, 32, 97, 61, 34, 98, 34, 93, 91, 120, 32, 99, 61, 34, 100, 34, 93>>,
      <<91, 120, 32, 97, 61, 34, 49, 34, 32, 97, 61, 34, 50, 34, 93>>,
      <<91, 95, 95, 104, 111, 115, 116, 110, 97, 109, 101, 32, 97, 61, 34, 98, 34, 93, 91, 104, 111, 115, 116, 110, 97, 109, 101, 32, 99, 61, 34, 100, 34, 93>> }

\* "", " hi"
ClefMessageFragments ==
    { <<>>, <<32, 104, 105>> }

ClefDatagrams ==
    { p \o t \o h \o sd \o m :
        p \in ClefPriorityFragments, t \in ClefTimestampFragments, h \in ClefHeaderFragments,
        sd \in ClefStructuredDataFragments, m \in ClefMessageFragments }

ClefInit ==
    /\ input \in ClefDatagrams
    /\ now = ServerNow
    /\ tz \in TzOffsets
    /\ called = "none"
    /\ decoded = Err("")
    /\ clef = NoClef
    /\ ServerIdle
    /\ StdoutIdle

ToClef ==
    /\ called = "from_bytes"
    /\ decoded.ok
    /\ called' = "to_clef"
    /\ clef' = to_clef(decoded.val)
    /\ UNCHANGED <<input, now, tz, decoded, serverVars, stdoutVars>>

\* serde_json::to_writer(&mut stdout, &clef)
ToWriter ==
    /\ called = "to_clef"
    /\ called' = "to_writer"
    /\ stdout' = Append(stdout, [id |-> 0, part |-> "document", doc |-> Serialize(clef)])
    /\ UNCHANGED <<input, now, tz, decoded, clef, serverVars, calls, lock>>

ClefNext == CallFromBytes \/ ToClef \/ ToWriter

SpecClef == ClefInit /\ [][ClefNext]_vars

(***************************************************************************)
(* Every raw priority, decoded and projected.                              *)
(***************************************************************************)
U8_MAX == 255

\* n in decimal.
RECURSIVE decimal(_)
decimal(n) == IF n < 10 THEN <<48 + n>> ELSE Append(decimal(n \div 10), 48 + (n % 10))

\* "<raw>1 - - - - - -"
PriorityDatagram(raw) == <<LT>> \o decimal(raw) \o <<GT>> \o <<49, 32, 45, 32, 45, 32, 45, 32, 45, 32, 45, 32, 45>>

PriorityInit ==
    /\ input \in {PriorityDatagram(raw) : raw \in 0..U8_MAX}
    /\ now = ServerNow
    /\ tz = 0
    /\ called = "none"
    /\ decoded = Err("")
    /\ clef = NoClef
    /\ ServerIdle
    /\ StdoutIdle

SpecPriority == PriorityInit /\ [][ClefNext]_vars

(***************************************************************************)
(* data/mod.rs: read_as_clef, called by thread c.  The call is at "start", *)
(* then at "lock", "document", "newline", and ends at "ok", "err" or       *)
(* "panicked".  The guard of the stdout lock is dropped when the call      *)
(* returns.                                                                *)
(***************************************************************************)
AllCallers == {WORKER} \cup Callers

StartCall(msg, id) == [pc |-> "start", msg |-> msg, id |-> id, doc |-> NoClef]

At_(c, pc) == calls[c].pc = pc

Goto(c, pc) == calls' = [calls EXCEPT ![c].pc = pc]

\* A piece of output: which call wrote it, and which part of its line it is.
Chunk(c, part) == [id |-> calls[c].id, part |-> part, doc |-> Serialize(calls[c].doc)]

\* A lock that does not exclude the other threads.
CanLockAlways(c) == TRUE

\* Stdout::lock blocks while another thread holds the lock.
CanLock(c) == lock \subseteq {c}

ReadAsClefDecoded(c, syslog) ==
    IF syslog.panic
    THEN calls' = [calls EXCEPT ![c].pc = "panicked"]
    ELSE calls' = [calls EXCEPT ![c].pc = "lock", ![c].doc = to_clef(syslog.val)]

ReadAsClefDecode(c) ==
    /\ At_(c, "start")
    /\ ReadAsClefDecoded(c, from_bytes(calls[c].msg, now, tz))
    /\ UNCHANGED <<decodeVars, clef, serverVars, lock, stdout>>

ReadAsClefLock(c) ==
    /\ At_(c, "lock")
    /\ CanLock(c)
    /\ lock' = lock \cup {c}
    /\ Goto(c, "document")
    /\ UNCHANGED <<decodeVars, clef, serverVars, stdout>>

\* serde_json::to_writer: the document is written, or the write fails, with
\* or without a part of the document written.
ReadAsClefWriteDocument(c) ==
    /\ At_(c, "document")
    /\ \/ /\ stdout' = Append(stdout, Chunk(c, "document"))
          /\ Goto(c, "newline")
          /\ UNCHANGED lock
       \/ /\ stdout' \in {stdout, Append(stdout, Chunk(c, "partial"))}
          /\ Goto(c, "err")
          /\ lock' = lock \ {c}
    /\ UNCHANGED <<decodeVars, clef, serverVars>>

ReadAsClefWriteNewline(c) ==
    /\ At_(c, "newline")
    /\ \/ /\ stdout' = Append(stdout, Chunk(c, "newline"))
          /\ Goto(c, "ok")
       \/ /\ UNCHANGED stdout
          /\ Goto(c, "err")
    /\ lock' = lock \ {c}
    /\ UNCHANGED <<decodeVars, clef, serverVars>>

ReadAsClef(c) ==
    \/ ReadAsClefDecode(c)
    \/ ReadAsClefLock(c)
    \/ ReadAsClefWriteDocument(c)
    \/ ReadAsClefWriteNewline(c)

(***************************************************************************)
(* Threads calling read_as_clef at the same time.                          *)
(***************************************************************************)
StdoutInit ==
    /\ DecodeIdle
    /\ now = ServerNow
    /\ tz = 0
    /\ ServerIdle
    /\ calls \in {[c \in AllCallers |-> IF c = WORKER THEN IdleCall ELSE StartCall(m[c], c)] :
                    m \in [Callers -> CallerDatagrams]}
    /\ lock = {}
    /\ stdout = <<>>

StdoutNext == \E c \in Callers : ReadAsClef(c)

SpecStdout == StdoutInit /\ [][StdoutNext]_vars

(***************************************************************************)
(* server/mod.rs, server/udp.rs: the server.  build makes it, run binds    *)
(* the socket and runs the loop; each turn of the loop is one select over  *)
(* the datagram stream, the close channel of the Handle and the interrupt. *)
(* select! takes any one of the branches that are ready.                   *)
(***************************************************************************)
ServerInit ==
    /\ DecodeIdle
    /\ now = ServerNow
    /\ tz = 0
    /\ ServerIdle
    /\ StdoutIdle

\* build: the bind address parses, or build returns the error.
Build ==
    /\ state = "Building"
    /\ state' \in {"Built", "BuildFailed"}
    /\ UNCHANGED <<decodeVars, clef, run_result, signalVars, socketVars, counters, stdoutVars>>

\* run, up to the loop: the socket is bound, or the server future ends with
\* the error.
Bind_ ==
    /\ state = "Built"
    /\ state' \in {"Listening", "Failed"}
    /\ UNCHANGED <<decodeVars, clef, run_result, signalVars, socketVars, counters, stdoutVars>>

\* The environment: a datagram reaches the socket.
DatagramArrives ==
    /\ state = "Listening"
    /\ arrived < MaxDatagrams
    /\ \E d \in ServerDatagrams : sockbuf' = Append(sockbuf, d)
    /\ arrived' = arrived + 1
    /\ UNCHANGED <<decodeVars, clef, state, run_result, signalVars, sockerr, errors, counters,
                   stdoutVars>>

\* The environment: the socket has an error to report.
SocketError ==
    /\ state = "Listening"
    /\ errors < MaxSocketErrors
    /\ ~sockerr
    /\ sockerr' = TRUE
    /\ errors' = errors + 1
    /\ UNCHANGED <<decodeVars, clef, state, run_result, signalVars, sockbuf, arrived, counters,
                   stdoutVars>>

\* Handle::close: the send succeeds while the receiver is alive.
HandleClose ==
    /\ state \notin {"Building", "BuildFailed"}
    /\ close = "open"
    /\ close' = IF state \in {"Built", "Listening"} THEN "sent" ELSE "refused"
    /\ UNCHANGED <<decodeVars, clef, state, run_result, ctrl_c, socketVars, counters, stdoutVars>>

\* The Handle is dropped unused: the receiver sees the channel canceled.
HandleDrop ==
    /\ state \notin {"Building", "BuildFailed"}
    /\ close = "open"
    /\ close' = "dropped"
    /\ UNCHANGED <<decodeVars, clef, state, run_result, ctrl_c, socketVars, counters, stdoutVars>>

\* The environment: the interrupt signal, once the loop listens for it.
Interrupt ==
    /\ state = "Listening"
    /\ ~ctrl_c
    /\ ctrl_c' = TRUE
    /\ UNCHANGED <<decodeVars, clef, state, run_result, close, socketVars, counters, stdoutVars>>

\* The loop is suspended in select!: process(msg) is not running.
AtSelect == state = "Listening" /\ At_(WORKER, "idle")

\* The datagram branch taken also after the loop has stopped.
SelectDatagramAfterStop ==
    /\ state \in {"Listening", "Stopped"}
    /\ At_(WORKER, "idle")
    /\ sockbuf # <<>>
    /\ Head(sockbuf) # <<>>
    /\ sockbuf' = Tail(sockbuf)
    /\ receive_ok' = receive_ok + 1
    /\ calls' = [calls EXCEPT ![WORKER] = StartCall(Head(sockbuf), receive_ok + 1)]
    /\ UNCHANGED <<decodeVars, clef, state, run_result, signalVars, sockerr, arrived, errors,
                   receive_err, process_ok, process_err, lock, stdout>>

\* The datagram branch handing the datagram to a thread of its own instead
\* of calling process(msg) in the loop.
SelectDatagramSpawned ==
    /\ state = "Listening"
    /\ sockbuf # <<>>
    /\ Head(sockbuf) # <<>>
    /\ sockbuf' = Tail(sockbuf)
    /\ receive_ok' = receive_ok + 1
    /\ \E c \in AllCallers :
        /\ At_(c, "idle")
        /\ calls' = [calls EXCEPT ![c] = StartCall(Head(sockbuf), receive_ok + 1)]
    /\ UNCHANGED <<decodeVars, clef, state, run_result, signalVars, sockerr, arrived, errors,
                   receive_err, process_ok, process_err, lock, stdout>>

\* Some(Ok(msg)): the datagram is counted and handed to process.
SelectDatagram ==
    /\ AtSelect
    /\ sockbuf # <<>>
    /\ Head(sockbuf) # <<>>
    /\ sockbuf' = Tail(sockbuf)
    /\ receive_ok' = receive_ok + 1
    /\ calls' = [calls EXCEPT ![WORKER] = StartCall(Head(sockbuf), receive_ok + 1)]
    /\ UNCHANGED <<decodeVars, clef, state, run_result, signalVars, sockerr, arrived, errors,
                   receive_err, process_ok, process_err, lock, stdout>>

\* Decode::decode gives Ok(None) for a zero-length datagram.  UdpFramed
\* either reads the next datagram ...
SelectFrameDropped ==
    /\ AtSelect
    /\ sockbuf # <<>>
    /\ Head(sockbuf) = <<>>
    /\ sockbuf' = Tail(sockbuf)
    /\ UNCHANGED <<decodeVars, clef, state, run_result, signalVars, sockerr, arrived, errors,
                   counters, stdoutVars>>

\* ... or ends the stream: the loop sees None and panics in unreachable!.
SelectStreamEnd ==
    /\ AtSelect
    /\ sockbuf # <<>>
    /\ Head(sockbuf) = <<>>
    /\ sockbuf' = Tail(sockbuf)
    /\ state' = "Panicked"
    /\ UNCHANGED <<decodeVars, clef, run_result, signalVars, sockerr, arrived, errors, counters,
                   stdoutVars>>

\* Some(Err(err)): the error is counted.
SelectReceiveErr ==
    /\ AtSelect
    /\ sockerr
    /\ sockerr' = FALSE
    /\ receive_err' = receive_err + 1
    /\ UNCHANGED <<decodeVars, clef, state, run_result, signalVars, sockbuf, arrived, errors,
                   receive_ok, process_ok, process_err, stdoutVars>>

\* The close branch taken while process(msg) is still running.
SelectClosePreempting ==
    /\ state = "Listening"
    /\ close \in {"sent", "dropped"}
    /\ state' = "Stopped"
    /\ UNCHANGED <<decodeVars, clef, run_result, signalVars, socketVars, counters, stdoutVars>>

\* `_ = close`: the Handle has sent, or has been dropped.
SelectClose ==
    /\ AtSelect
    /\ close \in {"sent", "dropped"}
    /\ state' = "Stopped"
    /\ UNCHANGED <<decodeVars, clef, run_result, signalVars, socketVars, counters, stdoutVars>>

\* `_ = ctrl_c`
SelectCtrlC ==
    /\ AtSelect
    /\ ctrl_c
    /\ state' = "Stopped"
    /\ UNCHANGED <<decodeVars, clef, run_result, signalVars, socketVars, counters, stdoutVars>>

\* process(msg) returned Ok(()).
ProcessOk ==
    /\ state = "Listening"
    /\ At_(WORKER, "ok")
    /\ process_ok' = process_ok + 1
    /\ calls' = [calls EXCEPT ![WORKER] = IdleCall]
    /\ UNCHANGED <<decodeVars, clef, state, run_result, signalVars, socketVars, receive_ok,
                   receive_err, process_err, lock, stdout>>

\* process(msg) returned Err(err).
ProcessErr ==
    /\ state = "Listening"
    /\ At_(WORKER, "err")
    /\ process_err' = process_err + 1
    /\ calls' = [calls EXCEPT ![WORKER] = IdleCall]
    /\ UNCHANGED <<decodeVars, clef, state, run_result, signalVars, socketVars, receive_ok,
                   receive_err, process_ok, lock, stdout>>

\* process(msg) panicked: the panic unwinds through the loop.
ProcessPanic ==
    /\ state = "Listening"
    /\ At_(WORKER, "panicked")
    /\ state' = "Panicked"
    /\ UNCHANGED <<decodeVars, clef, run_result, signalVars, socketVars, counters, stdoutVars>>

\* Server::run: block_on returns and run gives Ok(()), whether the server
\* future stopped or failed; a panic of the future unwinds through run.
RunReturns ==
    /\ run_result = "none"
    /\ state \in {"Stopped", "Failed", "Panicked"}
    /\ run_result' = IF state = "Panicked" THEN "panic" ELSE "Ok"
    /\ UNCHANGED <<decodeVars, clef, state, signalVars, socketVars, counters, stdoutVars>>

\* process(msg) is read_as_clef, running on the thread that called it: in
\* the loop that is the worker.
Process == state = "Listening" /\ \E c \in AllCallers : ReadAsClef(c)

Loop ==
    \/ SelectDatagram
    \/ SelectFrameDropped
    \/ SelectStreamEnd
    \/ SelectReceiveErr
    \/ SelectClose
    \/ SelectCtrlC
    \/ Process
    \/ ProcessOk
    \/ ProcessErr
    \/ ProcessPanic

Environment == DatagramArrives \/ SocketError \/ HandleClose \/ HandleDrop \/ Interrupt

Next == Build \/ Bind_ \/ Loop \/ RunReturns \/ Environment

Spec == ServerInit /\ [][Next]_vars

\* A call of read_as_clef can take its next step: every step but taking the
\* lock is always possible, and every step changes the position of the call.
ProcessEnabled ==
    /\ state = "Listening"
    /\ \E c \in AllCallers :
        \/ calls[c].pc \in {"start", "document", "newline"}
        \/ calls[c].pc = "lock" /\ CanLock(c)

\* process(msg) runs on: weak fairness of Process, with its enabling
\* condition written out.
ProcessRuns == []<>(~ProcessEnabled) \/ []<><<Process>>_vars

\* select! is fair to its branches, process(msg) runs to its end, and run
\* returns when the server future ends.
Fairness ==
    /\ SF_vars(SelectClose)
    /\ SF_vars(SelectCtrlC)
    /\ ProcessRuns
    /\ WF_vars(ProcessOk \/ ProcessErr \/ ProcessPanic)
    /\ WF_vars(RunReturns)

FairSpec == ServerInit /\ [][Next]_vars /\ Fairness

(***************************************************************************)
(* Properties of the decoder, under SpecDecode.                            *)
(***************************************************************************)
\* C1: from_bytes returns a Message for every byte slice and never panics,
\* and whenever from_rfc5424_bytes does not succeed the result is the one of
\* from_rfc3164_bytes.
C1_FromBytesIsTotal ==
    called = "from_bytes" =>
        /\ decoded.ok
        /\ ~from_rfc5424_bytes(input).ok => decoded = from_rfc3164_bytes(input, now, tz)

\* "<0>1 - - - - - []" makes from_bytes panic.
C1_EmptyElementPanics ==
    /\ called = "from_bytes"
    /\ input = EMPTY_ELEMENT_DATAGRAM
    /\ decoded.panic

\* C2: from_rfc3164_bytes returns a Message for every byte slice and every
\* `now`: no error value and no panic.
C2_FallbackIsTotal == called = "from_rfc3164_bytes" => decoded.ok

\* "<13>Feb 29 12:00:00 h m"
FEB_29_DATAGRAM ==
    <<60, 49, 51, 62, 70, 101, 98, 32, 50, 57, 32, 49, 50, 58, 48, 48, 58, 48, 48, 32, 104, 32, 109>>

\* Feb 29 makes from_rfc3164_bytes panic when `now` is in a common year.
C2_Feb29Panics ==
    /\ called = "from_rfc3164_bytes"
    /\ input = FEB_29_DATAGRAM
    /\ ~IsLeapYear(now.year)
    /\ decoded.panic

\* C3: when the priority parser fails on the datagram, from_rfc3164_bytes
\* returns priority (user, notice), timestamp `now`, no hostname, app name,
\* proc id, message id or structured data, and as message the lossy decoding
\* of the whole datagram, absent only for the empty datagram.
C3_PriorityFailureKeepsDatagram ==
    (called = "from_rfc3164_bytes" /\ ~priority(input).ok) =>
        /\ decoded.ok
        /\ decoded.val =
             Message([facility |-> 1, severity |-> 5], Some(now), None, None, None, None, None,
                     IF input = <<>> THEN None ELSE Some(from_utf8_lossy(input)))

\* A datagram without priority that begins with a valid timestamp has been decoded.
C3_TimestampWithoutPriority ==
    /\ called = "from_rfc3164_bytes"
    /\ ~priority(input).ok
    /\ loose_timestamp(input, now, tz).ok
    /\ decoded.ok

(***************************************************************************)
(* Properties of to_clef, under SpecClef.                                  *)
(***************************************************************************)
ReservedKeys == {KEY_T, KEY_L, KEY_M, KEY_MT, KEY_X}

HeaderKeys == {KEY_FACILITY, KEY_HOSTNAME, KEY_APP_NAME, KEY_PROC_ID, KEY_MESSAGE_ID}

\* "__" in front of the key.
Prefixed(key) == <<95, 95>> \o key

Emits(c, key, value) == key \in DOMAIN c.additional /\ c.additional[key] = value

EmitsSome(c, key, opt) == opt.some => Emits(c, key, JsonString(opt.v))

\* The projections of the header are in the document with the header's values.
HeaderKept(m, c) ==
    /\ Emits(c, KEY_FACILITY, JsonString(Priority_facility(m.priority)))
    /\ EmitsSome(c, KEY_HOSTNAME, m.hostname)
    /\ EmitsSome(c, KEY_APP_NAME, m.app_name)
    /\ EmitsSome(c, KEY_PROC_ID, m.proc_id)
    /\ EmitsSome(c, KEY_MESSAGE_ID, m.message_id)
    /\ c.timestamp = m.timestamp
    /\ c.level = Some(Priority_severity(m.priority))
    /\ c.message = m.message

\* The structured-data elements whose id is a reserved key or a header key.
Conflicting(m) ==
    IF m.structured_data.some
    THEN {k \in DOMAIN m.structured_data.v :
            m.structured_data.v[k].id \in ReservedKeys \cup HeaderKeys}
    ELSE {}

\* C10: when the id of a structured-data element is a reserved CLEF key or
\* the key of a header projection, the document keeps the header's value
\* under the key and has the element under the id with "__" in front.
C10_HeaderWinsConflicts ==
    called = "to_clef" =>
        \A k \in Conflicting(decoded.val) :
            /\ HeaderKept(decoded.val, clef)
            /\ Emits(clef, Prefixed(decoded.val.structured_data.v[k].id),
                     JsonParams(decoded.val.structured_data.v[k].param))

\* The element with id "hostname" has taken the place of the hostname "h".
C10_HostnameOverwritten ==
    /\ called = "to_clef"
    /\ decoded.val.hostname = Some(<<104>>)
    /\ clef.additional[KEY_HOSTNAME].kind = "params"
    /\ Prefixed(KEY_HOSTNAME) \notin DOMAIN clef.additional

(***************************************************************************)
(* Properties of the ingestion loop, under Spec and FairSpec.              *)
(***************************************************************************)
ShutdownDelivered == close = "sent" \/ ctrl_c

\* C4: the loop leaves Listening only by stopping on the close signal or
\* the interrupt; nothing that happens to a datagram ends it.
C4_OnlySignalsEndListening ==
    [][(state = "Listening" /\ state' # "Listening") =>
            (state' = "Stopped" /\ (close \in {"sent", "dropped"} \/ ctrl_c))]_vars

\* The loop has been aborted by a panic.
C4_LoopAborted == state = "Panicked" /\ ~ShutdownDelivered /\ close = "open"

C6_TranscodeFinishesBeforeShutdown ==
    state = "Stopped" => (At_(WORKER, "idle") /\ receive_ok = process_ok + process_err)

\* The loop has stopped after a successful and a failed transcode.
C6_StoppedAfterTranscodes ==
    /\ state = "Stopped"
    /\ ShutdownDelivered
    /\ process_ok >= 1
    /\ process_err >= 1

\* C7: when the close handle is used or the interrupt arrives while the
\* loop is Listening, the loop eventually stops and run returns.
C7_ShutdownIsLive ==
    (state = "Listening" /\ ShutdownDelivered) ~> (state = "Stopped" /\ run_result = "Ok")

\* The loop was aborted by a panic after the shutdown signal was delivered.
C7_AbortedAfterSignal == state = "Panicked" /\ ShutdownDelivered /\ run_result = "panic"

\* C8: the lines of the worker are on stdout in the order of receipt: all
\* output for a datagram is before all output for a datagram received later.
C8_ReceiptOrder ==
    \A i, j \in DOMAIN stdout : i < j => stdout[i].id <= stdout[j].id

\* Two datagrams have been written, each as a document and its newline.
C8_TwoLinesWritten ==
    /\ Len(stdout) = 4
    /\ <<stdout[1].id, stdout[2].id, stdout[3].id, stdout[4].id>> = <<1, 1, 2, 2>>
    /\ <<stdout[1].part, stdout[2].part, stdout[3].part, stdout[4].part>>
         = <<"document", "newline", "document", "newline">>
    /\ process_ok = 2

(***************************************************************************)
(* Properties of read_as_clef called by several threads, under SpecStdout. *)
(***************************************************************************)
\* C9: no output of one call is between two pieces of output of another
\* call: a document and its newline are never separated.
C9_LinesAreAtomic ==
    \A i, k \in DOMAIN stdout :
        (i < k /\ stdout[i].id = stdout[k].id) =>
            \A j \in i..k : stdout[j].id = stdout[i].id

\* One call has written its document and holds the lock, another waits for it.
C9_CallWaitsForLock ==
    \E a, b \in Callers :
        /\ a # b
        /\ lock = {a}
        /\ At_(a, "newline")
        /\ At_(b, "lock")
        /\ stdout # <<>>


\* The elements of m that share their id with a later element: k is such an
\* element and j the last element with its id.
Shadowed(m) ==
    IF m.structured_data.some
    THEN {kj \in (DOMAIN m.structured_data.v) \X (DOMAIN m.structured_data.v) :
            /\ kj[1] < kj[2]
            /\ m.structured_data.v[kj[1]].id = m.structured_data.v[kj[2]].id
            /\ \A l \in DOMAIN m.structured_data.v :
                 l > kj[2] => m.structured_data.v[l].id # m.structured_data.v[kj[2]].id}
    ELSE {}

\* C11: when two structured-data elements share an id, the document has the
\* second element under the id and the first under the id with "__" in front.
C11_DuplicateIdsBothEmitted ==
    called = "to_clef" =>
        \A kj \in Shadowed(decoded.val) :
            /\ Emits(clef, decoded.val.structured_data.v[kj[2]].id,
                     JsonParams(decoded.val.structured_data.v[kj[2]].param))
            /\ Emits(clef, Prefixed(decoded.val.structured_data.v[kj[1]].id),
                     JsonParams(decoded.val.structured_data.v[kj[1]].param))

\* Of [x a="b"][x c="d"] the document has the second element under "x" and
\* nothing under "__x".
C11_FirstElementLost ==
    /\ called = "to_clef"
    /\ Shadowed(decoded.val) = {<<1, 2>>}
    /\ decoded.val.structured_data.v[1].id = <<120>>
    /\ Emits(clef, <<120>>, JsonParams(decoded.val.structured_data.v[2].param))
    /\ decoded.val.structured_data.v[1].param # decoded.val.structured_data.v[2].param
    /\ Prefixed(<<120>>) \notin DOMAIN clef.additional


\* The document written last.
Written == stdout[Len(stdout)].doc

\* The keys of the entries of a written document.
FieldKeys(doc) == {doc.fields[i].key : i \in DOMAIN doc.fields}

\* C12: a reserved key is in the written document only when its field is
\* present: "@t" only with a timestamp, "@m" only with a message, "@mt" and
\* "@x" never, and no reserved key has the value null.
C12_ReservedKeysOnlyWhenPresent ==
    called = "to_writer" =>
        /\ KEY_T \in FieldKeys(Written) <=> decoded.val.timestamp.some
        /\ KEY_M \in FieldKeys(Written) <=> decoded.val.message.some
        /\ {KEY_MT, KEY_X} \cap (FieldKeys(Written) \cup DOMAIN Written.additional) = {}
        /\ \A i \in DOMAIN Written.fields :
             Written.fields[i].key \in ReservedKeys => Written.fields[i].value # JsonNull

\* "<0>1 - - - - - -" is written with "@t": null.
C12_NullTimestampWritten ==
    /\ called = "to_writer"
    /\ input = NIL_DATAGRAM
    /\ ~decoded.val.timestamp.some
    /\ Written.fields = <<Entry(KEY_T, JsonNull), Entry(KEY_L, JsonString(SeverityLabels[1]))>>


(***************************************************************************)
(* Properties of the RFC5424 header, under SpecDecode.                     *)
(***************************************************************************)
\* What follows the n-th space of s.
RECURSIVE AfterSpaces(_, _)
AfterSpaces(s, n) ==
    IF n = 0 \/ s = <<>> THEN s
    ELSE AfterSpaces(Tail(s), IF Head(s) = SP THEN n - 1 ELSE n)

\* The tokens of a datagram: "<pri>version", timestamp, hostname, app-name,
\* proc-id, message-id, and then structured data and message.
Tokens(d) == split(d, <<SP>>)

NIL == <<HYPHEN>>

\* The field is absent for the token "-" and is the token otherwise.
NilOrToken(field, token) == field = (IF token = NIL THEN None ELSE Some(token))

\* The structured data is the token "-": alone, or with a space after it.
NilStructuredData(d) ==
    AfterSpaces(d, 6) = NIL \/ StartsWith(AfterSpaces(d, 6), <<HYPHEN, SP>>)

\* C13: in a datagram that from_rfc5424_bytes accepts, a field is absent
\* exactly when its token is "-", and is never the text "-".
C13_NilIsAbsent ==
    (called = "from_rfc5424_bytes" /\ decoded.ok) =>
        /\ Len(Tokens(input)) >= 7
        /\ input = NIL_DATAGRAM => decoded.val = EmptyMessage(0)
        /\ decoded.val.timestamp.some <=> Tokens(input)[2] # NIL
        /\ NilOrToken(decoded.val.hostname, Tokens(input)[3])
        /\ NilOrToken(decoded.val.app_name, Tokens(input)[4])
        /\ NilOrToken(decoded.val.proc_id, Tokens(input)[5])
        /\ NilOrToken(decoded.val.message_id, Tokens(input)[6])
        /\ ~decoded.val.structured_data.some <=> NilStructuredData(input)

\* C13 for the five header items alone.
C13_HeaderItemsNilIsAbsent ==
    (called = "from_rfc5424_bytes" /\ decoded.ok) =>
        /\ Len(Tokens(input)) >= 7
        /\ input = NIL_DATAGRAM => decoded.val = EmptyMessage(0)
        /\ decoded.val.timestamp.some <=> Tokens(input)[2] # NIL
        /\ NilOrToken(decoded.val.hostname, Tokens(input)[3])
        /\ NilOrToken(decoded.val.app_name, Tokens(input)[4])
        /\ NilOrToken(decoded.val.proc_id, Tokens(input)[5])
        /\ NilOrToken(decoded.val.message_id, Tokens(input)[6])
        /\ NilStructuredData(input) => ~decoded.val.structured_data.some

\* A datagram is accepted without structured data though its token is not "-".
C13_AbsentWithoutNil ==
    /\ called = "from_rfc5424_bytes"
    /\ decoded.ok
    /\ ~decoded.val.structured_data.some
    /\ StartsWith(AfterSpaces(input, 6), <<HYPHEN, 120>>)


\* The first position at or after i where s has the byte b, and 0 when there is none.
RECURSIVE IndexFrom(_, _, _)
IndexFrom(s, b, i) ==
    IF i > Len(s) THEN 0 ELSE IF s[i] = b THEN i ELSE IndexFrom(s, b, i + 1)

\* The token between the first '>' and the first space after it.
VersionToken(d) ==
    LET gt == IndexFrom(d, GT, 1)
        sp == IF gt = 0 THEN 0 ELSE IndexFrom(d, SP, gt + 1)
    IN  IF sp = 0 THEN None ELSE Some(SubSeq(d, gt + 1, sp - 1))

\* C14: from_rfc5424_bytes accepts a datagram only with the version token
\* "1"; with any other it returns an error, and from_bytes returns what
\* from_rfc3164_bytes returns.
C14_OnlyVersionOne ==
    /\ (called = "from_rfc5424_bytes" /\ decoded.ok) => VersionToken(input) = Some(<<49>>)
    /\ (called = "from_rfc5424_bytes" /\ VersionToken(input) # Some(<<49>>)) =>
            (~decoded.ok /\ ~decoded.panic)
    /\ (called = "from_bytes" /\ VersionToken(input) # Some(<<49>>)) =>
            decoded = from_rfc3164_bytes(input, now, tz)

\* "<0>11 - - - - - -" has been given to from_bytes, which fell back.
C14_VersionElevenFallsBack ==
    /\ called = "from_bytes"
    /\ VersionToken(input) = Some(<<49, 49>>)
    /\ decoded.ok
    /\ decoded.val.priority = Priority_from_raw(0)
    /\ decoded.val.timestamp = Some(now)
    /\ decoded.val.message = Some(Drop(input, 3))


(***************************************************************************)
(* Properties of the priority, under SpecPriority.                         *)
(***************************************************************************)
\* C15: every raw priority 0..255 is split into facility = raw / 8 and
\* severity = raw % 8, so that raw = facility * 8 + severity and severity is
\* at most 7; the severity label is one of the eight labels and the facility
\* label is "unknown" exactly when the facility is above 23.
C15_PrioritySplit ==
    \A raw \in 0..U8_MAX :
        (input = PriorityDatagram(raw) /\ called # "none") =>
            /\ decoded.ok
            /\ decoded.val.priority.facility * 8 + decoded.val.priority.severity = raw
            /\ decoded.val.priority.severity \in 0..7
            /\ decoded.val.priority.facility \in 0..31
            /\ called \in {"to_clef", "to_writer"} =>
                /\ \E i \in 1..8 : clef.level = Some(SeverityLabels[i])
                /\ clef.level = Some(SeverityLabels[(raw % 8) + 1])
                /\ (clef.additional[KEY_FACILITY] = JsonString(UNKNOWN)) <=> (raw \div 8 > 23)
                /\ raw \div 8 <= 23 =>
                     clef.additional[KEY_FACILITY] = JsonString(FacilityLabels[(raw \div 8) + 1])

\* "<255>1 - - - - - -" has been projected: facility 31 "unknown", severity 7 "debug".
C15_Priority255Projected ==
    /\ input = PriorityDatagram(255)
    /\ called = "to_clef"
    /\ decoded.val.priority = [facility |-> 31, severity |-> 7]
    /\ clef.level = Some(SeverityLabels[8])
    /\ clef.additional[KEY_FACILITY] = JsonString(UNKNOWN)


(***************************************************************************)
(* Properties of startup and of the datagrams received, under Spec.        *)
(***************************************************************************)
\* C16: a failure to start is reported: with an invalid bind address build
\* returns the error and nothing runs, and when the socket cannot be bound
\* run does not return Ok as it does after a stop by a signal.
C16_StartupFailureIsReported ==
    /\ state = "BuildFailed" => (run_result = "none" /\ receive_ok = 0 /\ stdout = <<>>)
    /\ state = "Failed" => run_result # "Ok"

\* The socket could not be bound and run has returned Ok(()).
C16_BindFailureReturnsOk ==
    /\ state = "Failed"
    /\ run_result = "Ok"
    /\ receive_ok = 0
    /\ ~ShutdownDelivered


\* The datagrams the loop has taken from the socket.
Delivered == arrived - Len(sockbuf)

\* The calls of process(msg) begun so far.
Invoked == process_ok + process_err + (IF At_(WORKER, "idle") THEN 0 ELSE 1)

\* C17: every datagram taken from the socket, a zero-length one included, is
\* counted in receive_ok and handed to process exactly once.
C17_EveryDatagramTranscoded ==
    /\ Delivered = receive_ok
    /\ receive_ok = Invoked

\* A zero-length datagram was taken from the socket and neither counted nor
\* handed to process, and the loop listens on.
C17_EmptyDatagramDropped ==
    /\ state = "Listening"
    /\ Delivered = 1
    /\ receive_ok = 0
    /\ Invoked = 0
    /\ receive_err = 0


(***************************************************************************)
(* Properties of structured data and of the message, under SpecDecode.     *)
(***************************************************************************)
\* C18: a well-formed element [id n1="v1" ... nk="vk"] is decoded to its id,
\* whole, and its k parameters in order, each value the text between its
\* quotes, duplicate names kept; also when k = 0.
C18_ParametersPreserved ==
    \A e \in Elements :
        (called = "from_rfc5424_bytes" /\ input = ElementDatagram(e)) =>
            /\ decoded.ok
            /\ decoded.val.structured_data = Some(<<e>>)

\* C18 for the elements with a parameter and no '=' in a value.
C18_ParametersPreservedWithParameters ==
    \A e \in Elements :
        (/\ called = "from_rfc5424_bytes"
         /\ input = ElementDatagram(e)
         /\ e.param # <<>>
         /\ \A k \in DOMAIN e.param : EQUALS \notin {e.param[k][2][i] : i \in DOMAIN e.param[k][2]}) =>
            /\ decoded.ok
            /\ decoded.val.structured_data = Some(<<e>>)

\* "[id]" is decoded to the id "i".
C18_IdTruncated ==
    /\ called = "from_rfc5424_bytes"
    /\ input = ElementDatagram([id |-> <<105, 100>>, param |-> <<>>])
    /\ decoded.ok
    /\ decoded.val.structured_data = Some(<<[id |-> <<105>>, param |-> <<>>]>>)


\* Space, tab, line feed, vertical tab, form feed, carriage return.
AsciiWhitespace == {SP, 9, 10, 11, 12, 13}

NoTrailingWhitespace(text) == text = <<>> \/ text[Len(text)] \notin AsciiWhitespace

\* C19: the message of every Message the decoder returns, from the RFC5424
\* path or from the RFC3164 fallback, has no trailing whitespace.
C19_MessageTrimmed ==
    (called # "none" /\ decoded.ok /\ decoded.val.message.some) =>
        NoTrailingWhitespace(decoded.val.message.v)

\* What holds of trailing whitespace: the message of the RFC5424 path has
\* none, and the message of the RFC3164 fallback ends as the datagram ends.
Rfc5424MessageTrimmed ==
    /\ (called = "from_rfc5424_bytes" /\ decoded.ok /\ decoded.val.message.some) =>
            NoTrailingWhitespace(decoded.val.message.v)
    /\ (called = "from_bytes" /\ from_rfc5424_bytes(input).ok /\ decoded.val.message.some) =>
            NoTrailingWhitespace(decoded.val.message.v)
    /\ (called = "from_rfc3164_bytes" /\ decoded.ok /\ decoded.val.message.some) =>
            (NoTrailingWhitespace(decoded.val.message.v) <=> NoTrailingWhitespace(input))

\* An RFC5424 datagram that ends in " hi \n" has the message "hi".
Rfc5424TrailingNewlineTrimmed ==
    /\ called = "from_rfc5424_bytes"
    /\ decoded.ok
    /\ ~NoTrailingWhitespace(input)
    /\ decoded.val.message = Some(<<104, 105>>)


\* The fallback recovers a priority and keeps the whitespace that ends the datagram.
C19_FallbackKeepsTrailingWhitespace ==
    /\ called = "from_bytes"
    /\ ~from_rfc5424_bytes(input).ok
    /\ decoded.ok
    /\ decoded.val.priority # Priority_from_raw(DEFAULT_PRIORITY)
    /\ decoded.val.message.some
    /\ ~NoTrailingWhitespace(decoded.val.message.v)


\* C20: whenever from_rfc5424_bytes succeeds, the message is None or a
\* non-empty string: a payload that is empty, or empty once the byte-order mark
\* is stripped and the trailing whitespace trimmed, is None and never Some("").
C20_EmptyMessageIsAbsent ==
    (called = "from_rfc5424_bytes" /\ decoded.ok) =>
        (decoded.val.message = None \/ Len(decoded.val.message.v) > 0)

\* What holds of the empty message: a datagram that does not end in
\* whitespace has no message or a non-empty one.
EmptyPayloadIsAbsent ==
    (called = "from_rfc5424_bytes" /\ decoded.ok /\ NoTrailingWhitespace(input)) =>
        (decoded.val.message = None \/ Len(decoded.val.message.v) > 0)

\* A payload of one line feed is the message Some("").
C20_BlankPayloadIsEmptyString ==
    /\ called = "from_rfc5424_bytes"
    /\ decoded.ok
    /\ decoded.val.structured_data = None
    /\ Len(input) > 2
    /\ SubSeq(input, Len(input) - 2, Len(input)) = <<HYPHEN, SP, 10>>
    /\ decoded.val.message = Some(<<>>)



(***************************************************************************)
(* Properties of the structured-data position, under SpecDecode.           *)
(***************************************************************************)
\* What the datagram holds after the message id: structured data and message.
StructuredDataAndMessage(d) == AfterSpaces(d, 6)

\* The position holds "-", or a '[' that some later ']' closes.
StructuredDataOpens(sd) ==
    /\ sd # <<>>
    /\ \/ sd[1] = HYPHEN
       \/ sd[1] = LBRACKET /\ IndexFrom(sd, RBRACKET, 2) # 0

\* C21: from_rfc5424_bytes accepts a datagram only if the position after the
\* message id holds "-" or bracketed elements; an empty position, another
\* first byte, or a '[' without its ']' is an error of the whole attempt.
C21_MalformedStructuredDataRejected ==
    (called = "from_rfc5424_bytes" /\ decoded.ok) =>
        StructuredDataOpens(StructuredDataAndMessage(input))

\* What holds of the position: a first byte other than '-' and '[' is an error.
OtherFirstByteRejected ==
    (called = "from_rfc5424_bytes" /\ decoded.ok
        /\ StructuredDataAndMessage(input) # <<>>) =>
        StructuredDataAndMessage(input)[1] \in {HYPHEN, LBRACKET}

\* A datagram whose '[' is never closed is accepted without structured data.
C21_UnclosedBracketAccepted ==
    /\ called = "from_rfc5424_bytes"
    /\ decoded.ok
    /\ StructuredDataAndMessage(input) # <<>>
    /\ StructuredDataAndMessage(input)[1] = LBRACKET
    /\ IndexFrom(StructuredDataAndMessage(input), RBRACKET, 2) = 0
    /\ decoded.val.structured_data = None

\* A datagram that ends after the message id is accepted.
EmptyPositionAccepted ==
    /\ called = "from_rfc5424_bytes"
    /\ decoded.ok
    /\ StructuredDataAndMessage(input) = <<>>



(***************************************************************************)
(* Properties of the four counters, under Spec.                            *)
(***************************************************************************)
\* process(msg) has been called by the loop and has not come back.
ProcessRunning == state = "Listening" /\ ~At_(WORKER, "idle")

\* C22: the counters move one event at a time and never decrease: a received
\* datagram is counted in receive_ok and then in exactly one of process_ok
\* and process_err, so that whenever process(msg) is not running
\* receive_ok = process_ok + process_err.
C22_CountersBalance ==
    ~ProcessRunning => receive_ok = process_ok + process_err

\* What holds of the counters at the suspension points of the loop.
SuspensionPointBalance ==
    /\ AtSelect => receive_ok = process_ok + process_err
    /\ receive_ok - (process_ok + process_err) \in {0, 1}

\* What holds of the steps: a step moves at most one counter, by one and
\* upwards; a receive error moves receive_err alone; a process counter moves
\* when process(msg) comes back.
CountersStep ==
    [][/\ receive_ok' - receive_ok \in {0, 1}
       /\ receive_err' - receive_err \in {0, 1}
       /\ process_ok' - process_ok \in {0, 1}
       /\ process_err' - process_err \in {0, 1}
       /\ (receive_ok' + receive_err' + process_ok' + process_err')
            - (receive_ok + receive_err + process_ok + process_err) \in {0, 1}
       /\ receive_err' # receive_err => (AtSelect /\ AtSelect' /\ stdout' = stdout)
       /\ receive_ok' # receive_ok => (AtSelect /\ ProcessRunning')
       /\ (process_ok' # process_ok \/ process_err' # process_err) =>
            (ProcessRunning /\ AtSelect')]_vars

\* process(msg) panicked: its datagram is counted in receive_ok alone.
C22_CountedWithoutOutcome ==
    /\ state = "Panicked"
    /\ At_(WORKER, "panicked")
    /\ receive_ok = process_ok + process_err + 1
    /\ process_ok >= 1



(***************************************************************************)
(* Properties of the message payload, under SpecDecode.                    *)
(***************************************************************************)
\* The first position at or after i where s has a ']' with no '[' right
\* after it, and 0 when there is none.
RECURSIVE LastBracket(_, _)
LastBracket(s, i) ==
    IF i > Len(s) THEN 0
    ELSE IF s[i] = RBRACKET /\ At(s, i + 1) # LBRACKET THEN i
    ELSE LastBracket(s, i + 1)

\* The bytes after the structured data and one space, when the structured
\* data is "-" or elements up to a final ']' and a space follows; None
\* otherwise.
Payload(d) ==
    LET sd == StructuredDataAndMessage(d)
        closing == LastBracket(sd, 1)
    IN  IF StartsWith(sd, <<HYPHEN, SP>>) THEN Some(Drop(sd, 2))
        ELSE IF StartsWith(sd, <<LBRACKET>>) /\ closing # 0 /\ At(sd, closing + 1) = SP
        THEN Some(Drop(sd, closing + 1))
        ELSE None

\* The bytes of a message, and no bytes for the message that is absent.
MessageText(message) == IF message.some THEN message.v ELSE <<>>

\* text is whole without the whitespace that ends it.
RightTrimmed(text, whole) ==
    /\ NoTrailingWhitespace(text)
    /\ Len(text) <= Len(whole)
    /\ Take(whole, Len(text)) = text
    /\ \A i \in (Len(text) + 1)..Len(whole) : whole[i] \in AsciiWhitespace

\* The message is the payload decoded: what follows the byte-order mark as
\* it stands, or the whole payload decoded lossily, right-trimmed.
PayloadDecoded(message, payload) ==
    IF StartsWith(payload, BOM)
    THEN RightTrimmed(MessageText(message), Drop(payload, 3))
    ELSE RightTrimmed(MessageText(message), from_utf8_lossy(payload))

\* C23 as stated: in an accepted RFC5424 datagram a payload that starts with
\* the byte-order mark gives the bytes after it, right-trimmed, and a message
\* that does not start with the byte-order mark; a payload without it is
\* decoded lossily and right-trimmed.
C23_BomStripped ==
    (called = "from_rfc5424_bytes" /\ decoded.ok /\ Payload(input).some) =>
        /\ PayloadDecoded(decoded.val.message, Payload(input).v)
        /\ StartsWith(Payload(input).v, BOM) =>
                ~StartsWith(MessageText(decoded.val.message), BOM)

\* C23: in an accepted RFC5424 datagram a payload that starts with the
\* byte-order mark gives the bytes after that one mark, right-trimmed; a
\* payload without it is decoded lossily and right-trimmed.
C23_OneBomStripped ==
    (called = "from_rfc5424_bytes" /\ decoded.ok /\ Payload(input).some) =>
        PayloadDecoded(decoded.val.message, Payload(input).v)

\* A payload of two byte-order marks and "hi" gives one mark and "hi".
C23_SecondBomKept ==
    /\ called = "from_rfc5424_bytes"
    /\ decoded.ok
    /\ Payload(input) = Some(BOM \o BOM \o <<104, 105>>)
    /\ decoded.val.message = Some(BOM \o <<104, 105>>)

\* A payload of one byte-order mark, "hi" and a line feed gives "hi".
BomAndNewlineStripped ==
    /\ called = "from_rfc5424_bytes"
    /\ decoded.ok
    /\ Payload(input) = Some(BOM \o <<104, 105, 10>>)
    /\ decoded.val.message = Some(<<104, 105>>)



(***************************************************************************)
(* Properties of the structured data in the document, under SpecClef.      *)
(***************************************************************************)
\* The elements that no later element of the same id replaces.
LastOfId(m) ==
    IF m.structured_data.some
    THEN {k \in DOMAIN m.structured_data.v :
            \A l \in DOMAIN m.structured_data.v :
                l > k => m.structured_data.v[l].id # m.structured_data.v[k].id}
    ELSE {}

ParamNames(param) == {param[i][1] : i \in DOMAIN param}

\* The JSON object of the parameters: each name with the last value given to it.
LastValues(param) ==
    [name \in ParamNames(param) |->
        param[CHOOSE i \in DOMAIN param :
                /\ param[i][1] = name
                /\ \A j \in DOMAIN param : param[j][1] = name => j <= i][2]]

\* C24: to_clef stores each structured-data element under its id as a JSON
\* object with the parameter names as keys and the parameter values as
\* values; a name that occurs more than once has its last value.
C24_ElementIsObject ==
    called = "to_clef" =>
        \A k \in LastOfId(decoded.val) :
            /\ decoded.val.structured_data.v[k].id \in DOMAIN clef.additional
            /\ clef.additional[decoded.val.structured_data.v[k].id].kind = "object"
            /\ clef.additional[decoded.val.structured_data.v[k].id].param
                 = LastValues(decoded.val.structured_data.v[k].param)

\* What holds of an element in the document: it is under its id, as the
\* array of its [name, value] pairs.
ElementIsArrayOfPairs ==
    called = "to_clef" =>
        \A k \in LastOfId(decoded.val) :
            Emits(clef, decoded.val.structured_data.v[k].id,
                  JsonParams(decoded.val.structured_data.v[k].param))

\* An element that gives the name "a" two values is in the document as an
\* array of both pairs.
C24_BothValuesKept ==
    /\ called = "to_clef"
    /\ decoded.val.structured_data.some
    /\ Len(decoded.val.structured_data.v) = 1
    /\ Len(decoded.val.structured_data.v[1].param) = 2
    /\ decoded.val.structured_data.v[1].param[1][1] = decoded.val.structured_data.v[1].param[2][1]
    /\ decoded.val.structured_data.v[1].param[1][2] # decoded.val.structured_data.v[1].param[2][2]
    /\ clef.additional[decoded.val.structured_data.v[1].id]
         = JsonParams(decoded.val.structured_data.v[1].param)



(***************************************************************************)
(* Properties of the RFC3164 fallback, under SpecDecode.                   *)
(***************************************************************************)
EndsWith(s, p) == Len(s) >= Len(p) /\ SubSeq(s, Len(s) - Len(p) + 1, Len(s)) = p

\* " su: x", the tag and text after the hostname "mymachine".
TAG_AND_TEXT == <<115, 117, 58, 32, 120>>

\* C25: from_rfc3164_bytes never extracts the tag: app_name, proc_id,
\* message_id and structured_data are absent in every Message it returns,
\* and the message is the end of the datagram as it stands (decoded
\* lossily), so that a tag after the hostname is still in the message.
C25_TagNotExtracted ==
    (called = "from_rfc3164_bytes" /\ decoded.ok) =>
        /\ decoded.val.app_name = None
        /\ decoded.val.proc_id = None
        /\ decoded.val.message_id = None
        /\ decoded.val.structured_data = None
        /\ EndsWith(from_utf8_lossy(input), MessageText(decoded.val.message))
        /\ (decoded.val.hostname.some /\ EndsWith(input, TAG_AND_TEXT)) =>
                EndsWith(MessageText(decoded.val.message), TAG_AND_TEXT)

\* A datagram with the hostname "mymachine" and the tag "su:" has the
\* message "su: x".
C25_TagInMessage ==
    /\ called = "from_rfc3164_bytes"
    /\ decoded.ok
    /\ decoded.val.hostname = Some(<<109, 121, 109, 97, 99, 104, 105, 110, 101>>)
    /\ decoded.val.app_name = None
    /\ decoded.val.message = Some(TAG_AND_TEXT)



(***************************************************************************)
(* Properties of the separator before the message, under SpecDecode.       *)
(***************************************************************************)
\* C26: in a datagram that from_rfc5424_bytes accepts with a message, one
\* space stands between the structured data ("-" or the final ']') and the
\* message, and the message is the bytes after that space: no other byte is
\* skipped between the two.
C26_SingleSpaceBeforeMessage ==
    (called = "from_rfc5424_bytes" /\ decoded.ok /\ decoded.val.message.some) =>
        /\ Payload(input).some
        /\ PayloadDecoded(decoded.val.message, Payload(input).v)

\* In "-xhi" the byte "x" after the structured data is in no field: the
\* message is "hi".
C26_ByteSkipped ==
    /\ called = "from_rfc5424_bytes"
    /\ decoded.ok
    /\ StructuredDataAndMessage(input) = <<HYPHEN, 120, 104, 105>>
    /\ Payload(input) = None
    /\ decoded.val.message = Some(<<104, 105>>)



(***************************************************************************)
(* Properties of loose_timestamp, under SpecDecode.                        *)
(***************************************************************************)
\* The value of one or two digits, the first of which may be a space.
TwoDigits(a, b) == (IF a = SP THEN 0 ELSE (a - 48) * 10) + (b - 48)

\* The 15 bytes after "<NN>", when the datagram starts with such a priority.
StampAfterPriority(d) ==
    IF Len(d) >= 19 /\ d[1] = LT /\ IsDigit(d[2]) /\ IsDigit(d[3]) /\ d[4] = GT
    THEN Some(SubSeq(d, 5, 19))
    ELSE None

\* The month of the name in the first three bytes, and 0 when it is no month.
MonthOf(ts) ==
    LET hits == {m \in 1..12 :
                    MonthNames[m] = <<ToLower(ts[1]), ToLower(ts[2]), ToLower(ts[3])>>}
    IN  IF hits = {} THEN 0 ELSE CHOOSE m \in hits : TRUE

\* "Mon DD HH:MM:SS" with a month name, digits in their places, and a time of day.
IsStamp(ts) ==
    /\ MonthOf(ts) # 0
    /\ ts[4] = SP /\ ts[7] = SP /\ ts[10] = COLON /\ ts[13] = COLON
    /\ (ts[5] = SP \/ IsDigit(ts[5]))
    /\ \A k \in {6, 8, 9, 11, 12, 14, 15} : IsDigit(ts[k])
    /\ TwoDigits(ts[5], ts[6]) >= 1
    /\ TwoDigits(ts[8], ts[9]) <= 23
    /\ TwoDigits(ts[11], ts[12]) <= 59
    /\ TwoDigits(ts[14], ts[15]) <= 59

\* The year the claim gives to a timestamp read at `at`.
InferredYear(ts, at) ==
    IF Take(ts, 3) = <<68, 101, 99>> /\ at.month = 1 THEN at.year - 1
    ELSE IF Take(ts, 3) = <<74, 97, 110>> /\ at.month = 12 THEN at.year + 1
    ELSE at.year

\* The wall-clock time of the timestamp, in the inferred year.
WallClock(ts, at) ==
    DateTime(InferredYear(ts, at), MonthOf(ts), TwoDigits(ts[5], ts[6]),
             TwoDigits(ts[8], ts[9]), TwoDigits(ts[11], ts[12]),
             TwoDigits(ts[14], ts[15]), 0)

\* The fallback has returned for a datagram with a priority and a
\* "Mon DD HH:MM:SS" timestamp of a day that the inferred year has.
StampDecoded ==
    /\ called = "from_rfc3164_bytes"
    /\ decoded.ok
    /\ StampAfterPriority(input).some
    /\ IsStamp(StampAfterPriority(input).v)
    /\ ValidDate(InferredYear(StampAfterPriority(input).v, now),
                 MonthOf(StampAfterPriority(input).v),
                 TwoDigits(StampAfterPriority(input).v[5], StampAfterPriority(input).v[6]))

\* C27 as stated: the timestamp loose_timestamp returns has the year now.year - 1
\* for "Dec" read in January, now.year + 1 for "Jan" read in December and
\* now.year otherwise, and the month, day, hour, minute and second of the input.
C27_YearInferred ==
    StampDecoded =>
        decoded.val.timestamp = Some(WallClock(StampAfterPriority(input).v, now))

\* C27: the timestamp loose_timestamp returns is the instant at which the
\* machine's local clock shows the inferred year (now.year - 1 for "Dec" read in
\* January, now.year + 1 for "Jan" read in December, now.year otherwise) and
\* the month, day, hour, minute and second of the input.
C27_YearInferredInLocalTime ==
    StampDecoded =>
        decoded.val.timestamp
            = Some(with_timezone_utc(WallClock(StampAfterPriority(input).v, now), tz))

\* "Dec 31 23:59:59" read in January 2021, five hours west of UTC, is
\* 2021-01-01T04:59:59Z: the last second of 2020 on the local clock.
C27_DecemberReadInJanuary ==
    /\ StampDecoded
    /\ Take(StampAfterPriority(input).v, 3) = <<68, 101, 99>>
    /\ now.month = 1
    /\ tz = -300
    /\ decoded.val.timestamp = Some(DateTime(now.year, 1, 1, 4, 59, 59, 0))



(***************************************************************************)
(* data/parsers.rs: priority and delimited, applied to byte strings.       *)
(***************************************************************************)
LPAREN == 40

RPAREN == 41

MaxParserLen == 4

\* '<', '>', '(', ')', '2', '5', 'a'
ParserAlphabet == {LT, GT, LPAREN, RPAREN, 50, 53, 97}

\* "<0013>", "<0002>x", "<255>", "<256>", "<999>", "<165>1 ", "<1a>", "<12",
\* "(hello, world) and then", "(test", "test)", " ", "()x"
ParserExamples ==
    { <<60, 48, 48, 49, 51, 62>>,
      <<60, 48, 48, 48, 50, 62, 120>>,
      <<60, 50, 53, 53, 62>>,
      <<60, 50, 53, 54, 62>>,
      <<60, 57, 57, 57, 62>>,
      <<60, 49, 54, 53, 62, 49, 32>>,
      <<60, 49, 97, 62>>,
      <<60, 49, 50>>,
      <<40, 104, 101, 108, 108, 111, 44, 32, 119, 111, 114, 108, 100, 41, 32, 97, 110, 100, 32, 116, 104, 101, 110>>,
      <<40, 116, 101, 115, 116>>,
      <<116, 101, 115, 116, 41>>,
      <<32>>,
      <<40, 41, 120>> }

ParserInputs == UNION {[1..n -> ParserAlphabet] : n \in 0..MaxParserLen} \cup ParserExamples

ParsersInit ==
    /\ input \in ParserInputs
    /\ now = ServerNow
    /\ tz = 0
    /\ called = "none"
    /\ decoded = Err("")
    /\ clef = NoClef
    /\ ServerIdle
    /\ StdoutIdle

CallPriority ==
    /\ called = "none"
    /\ called' = "priority"
    /\ decoded' = priority(input)
    /\ UNCHANGED <<input, now, tz, clef, serverVars, stdoutVars>>

\* delimited(i, b'(', b')')
CallDelimitedParens ==
    /\ called = "none"
    /\ called' = "delimited_parens"
    /\ decoded' = delimited(input, LPAREN, RPAREN)
    /\ UNCHANGED <<input, now, tz, clef, serverVars, stdoutVars>>

\* delimited(i, b'<', b'>')
CallDelimitedAngles ==
    /\ called = "none"
    /\ called' = "delimited_angles"
    /\ decoded' = delimited(input, LT, GT)
    /\ UNCHANGED <<input, now, tz, clef, serverVars, stdoutVars>>

ParsersNext == CallPriority \/ CallDelimitedParens \/ CallDelimitedAngles

SpecParsers == ParsersInit /\ [][ParsersNext]_vars

(***************************************************************************)
(* Properties of priority and delimited, under SpecParsers.                *)
(***************************************************************************)
\* The number that ASCII digits write.
RECURSIVE DigitsValue(_)
DigitsValue(digits) ==
    IF digits = <<>> THEN 0
    ELSE DigitsValue(SubSeq(digits, 1, Len(digits) - 1)) * 10 + (digits[Len(digits)] - 48)

\* The position of the first `end` after a leading `start`, and 0 when i
\* does not begin with `start` or has no `end` after it.
EndAfterStart(i, start, end) ==
    IF i # <<>> /\ i[1] = start THEN IndexFrom(i, end, 2) ELSE 0

\* What is between the leading `start` and the first `end` after it.
Content(i, start, end) == SubSeq(i, 2, EndAfterStart(i, start, end) - 1)

AllDigits(s) == \A k \in DOMAIN s : IsDigit(s[k])

\* "<NNN>": between '<' and '>' are one to three digits that write at most 255.
IsPriority(i) ==
    /\ EndAfterStart(i, LT, GT) # 0
    /\ Len(Content(i, LT, GT)) \in 1..3
    /\ AllDigits(Content(i, LT, GT))
    /\ DigitsValue(Content(i, LT, GT)) <= U8_MAX

\* C28: priority accepts exactly the inputs that begin with '<', one to three
\* ASCII digits of value at most 255 and '>'; it returns that value and the
\* slice after '>', and fails for empty content, content that is not digits,
\* more than three digits and values above 255.
C28_PriorityAccepts ==
    called = "priority" =>
        /\ ~decoded.panic
        /\ decoded.ok <=> IsPriority(input)
        /\ decoded.ok =>
            /\ decoded.val = DigitsValue(Content(input, LT, GT))
            /\ decoded.rem = Drop(input, EndAfterStart(input, LT, GT))

\* What holds of priority: the same for digits in any number.
PriorityAcceptsDigits ==
    called = "priority" =>
        /\ ~decoded.panic
        /\ decoded.ok <=>
            /\ EndAfterStart(input, LT, GT) # 0
            /\ Content(input, LT, GT) # <<>>
            /\ AllDigits(Content(input, LT, GT))
            /\ DigitsValue(Content(input, LT, GT)) <= U8_MAX
        /\ decoded.ok =>
            /\ decoded.val = DigitsValue(Content(input, LT, GT))
            /\ decoded.rem = Drop(input, EndAfterStart(input, LT, GT))

\* "<0013>" is the priority 13.
C28_FourDigitsAccepted ==
    /\ called = "priority"
    /\ input = <<LT, 48, 48, 49, 51, GT>>
    /\ decoded.ok
    /\ decoded.val = 13



\* delimited succeeds exactly for a leading `start`, a later `end` and
\* something between them, and returns what is between and the slice after `end`.
DelimitedAccepts(i, start, end) ==
    /\ ~decoded.panic
    /\ decoded.ok <=> (EndAfterStart(i, start, end) # 0 /\ Content(i, start, end) # <<>>)
    /\ decoded.ok =>
        /\ decoded.val = Content(i, start, end)
        /\ decoded.rem = Drop(i, EndAfterStart(i, start, end))

\* C29: delimited(i, start, end) succeeds only for an input that begins with
\* `start`, has a later `end` and something between the two, and returns that
\* content and the slice after `end`; it fails when a delimiter is missing or
\* the content is empty, as in "()", "(test", "test)", " ", "", "(" and ")".
C29_DelimitedAccepts ==
    /\ called = "delimited_parens" => DelimitedAccepts(input, LPAREN, RPAREN)
    /\ called = "delimited_angles" => DelimitedAccepts(input, LT, GT)

\* delimited with empty content taken as well.
DelimitedAcceptsOrEmpty(i, start, end) ==
    /\ ~decoded.panic
    /\ decoded.ok <=> EndAfterStart(i, start, end) # 0
    /\ decoded.ok =>
        /\ decoded.val = Content(i, start, end)
        /\ decoded.rem = Drop(i, EndAfterStart(i, start, end))

\* What holds of delimited: the same, but empty content is returned.
DelimitedAcceptsEmptyContent ==
    /\ called = "delimited_parens" => DelimitedAcceptsOrEmpty(input, LPAREN, RPAREN)
    /\ called = "delimited_angles" => DelimitedAcceptsOrEmpty(input, LT, GT)

\* The inputs of the test delimited_rejects_invalid_content are errors.
DelimitedRejectsInvalidContent ==
    (called = "delimited_parens"
        /\ input \in { <<LPAREN, 116, 101, 115, 116>>, <<116, 101, 115, 116, RPAREN>>,
                       <<SP>>, <<>>, <<LPAREN>>, <<RPAREN>> }) =>
        (~decoded.ok /\ ~decoded.panic)

\* "()" is accepted with no content.
C29_EmptyContentAccepted ==
    /\ called = "delimited_parens"
    /\ input = <<LPAREN, RPAREN>>
    /\ decoded.ok
    /\ decoded.val = <<>>
    /\ decoded.rem = <<>>



(***************************************************************************)
(* Conservation of the datagram's bytes in the fallback, under SpecDecode. *)
(***************************************************************************)
\* The bytes of "<NNN>" in front of d, and 0 when priority fails on d.
PriorityLen(d) == IF priority(d).ok THEN EndAfterStart(d, LT, GT) ELSE 0

\* The bytes of the timestamp in front of r: an ISO 8601 timestamp up to its
\* space or 15 bytes, and 0 when loose_timestamp fails on r.
TimestampLen(r, at, zone) ==
    IF ~loose_timestamp(r, at, zone).ok THEN 0
    ELSE IF iso8601_timestamp(r).ok THEN IndexFrom(r, SP, 1) - 1
    ELSE TIMESTAMP_LEN

\* The bytes of the hostname token and its space in front of r, and 0 when
\* header_item fails on r.
HostnameLen(r) == IF header_item(r, "hostname").ok THEN IndexFrom(r, SP, 1) ELSE 0

\* The bytes in front of d that the items take which parse, each tried
\* only after the one before it has parsed: priority, timestamp, one space,
\* hostname.
Consumed(d, at, zone) ==
    LET pLen == PriorityLen(d)
        tLen == IF pLen = 0 THEN 0 ELSE TimestampLen(Drop(d, pLen), at, zone)
        sLen == IF tLen # 0 /\ At(d, pLen + tLen + 1) = SP THEN 1 ELSE 0
        hLen == IF sLen = 0 THEN 0 ELSE HostnameLen(Drop(d, pLen + tLen + sLen))
    IN  pLen + tLen + sLen + hLen

\* C30: the message that from_rfc3164_bytes returns is the lossy decoding of
\* the datagram without the bytes of the items that parsed (priority,
\* timestamp, one space, hostname and its space), and is absent exactly
\* when nothing is left; an item that fails takes no byte.
C30_FallbackConservesBytes ==
    (called = "from_rfc3164_bytes" /\ decoded.ok) =>
        decoded.val.message =
            (IF Consumed(input, now, tz) >= Len(input) THEN None
             ELSE Some(from_utf8_lossy(Drop(input, Consumed(input, now, tz)))))

\* Of "<34>Oct 11 22:14:15 mymachine su: x" the first 30 bytes are the four
\* items and the message is "su: x".
C30_AllItemsConsumed ==
    /\ called = "from_rfc3164_bytes"
    /\ decoded.ok
    /\ Len(input) = 35
    /\ PriorityLen(input) = 4
    /\ Consumed(input, now, tz) = 30
    /\ decoded.val.message = Some(TAG_AND_TEXT)

\* Of "<34>Oct 32 00:00:00 " the timestamp fails: only the priority is taken.
TimestampFailureConsumesNothing ==
    /\ called = "from_rfc3164_bytes"
    /\ decoded.ok
    /\ Len(input) = 20
    /\ Consumed(input, now, tz) = 4
    /\ decoded.val.message = Some(Drop(input, 4))

=============================================================================
